---- MODULE Spec2Model ----
(***************************************************************************)
(* A model of widcc: the preprocessor (preprocess.c), the parser's struct  *)
(* layout, jumps out of VLA scopes, constant evaluation, enum bodies,      *)
(* global declarations and initializers and live functions (parse.c), the  *)
(* usual arithmetic conversions (type.c), and the code generator's         *)
(* argument passing, stack frame, temp-stack and output file (codegen.c).  *)
(* Each subsystem has its own specification; the variables of the other    *)
(* subsystems are parked at their idle values.                             *)
(***************************************************************************)
EXTENDS Integers, Sequences, FiniteSets, TLC

VARIABLES
  \* ---- struct layout (parse.c: struct_union_decl, struct_decl) ----
  st_pc,        \* "idle" | "parsed" | "done"
  st_attrs,     \* the attribute list attached to the struct token
  st_members,   \* ty->members: sequence of Member records
  st_decl,      \* the member list as struct_members left it (history)
  st_packed,    \* ty->is_packed
  st_size,      \* ty->size
  st_align,     \* ty->align
  \* ---- directives (preprocess.c: preprocess, preprocess2, directives) ----
  dr_pc,        \* "idle" | "run" | "done" | "error"
  dr_err,       \* the message of the fatal error, "" when there is none
  dr_files,     \* path -> the lines of the file
  dr_in,        \* the token list from the cursor on, line by line
  dr_out,       \* the tokens emitted so far (cur), line by line
  dr_cond,      \* cond_incl: the stack of open conditionals, top first
  dr_macros,    \* macros: the names that are defined
  dr_once,      \* pragma_once: the paths marked by #pragma once
  dr_guards,    \* include_guards: path -> guard name, "none" when absent
  dr_evald,     \* history: the #if/#elif lines whose condition was evaluated
  \* ---- macro expansion (preprocess.c: preprocess2, expand_macro, subst) ----
  ex_pc,        \* "idle" | "run" | "done" | "error" | "internal_error"
  ex_err,       \* the message of the fatal error, "" when there is none
  ex_tk,        \* the tokens: token id -> Token
  ex_mac,       \* macros: name -> Macro, for the names that are defined
  ex_lock,      \* name -> [is_locked, stop_tok] of the Macro
  ex_locked,    \* locked_macros: the locked macros, the latest first
  ex_stack,     \* the active loops (preprocess2, expand_arg, subst), innermost first
  ex_result,    \* the token list preprocess2 returned, as token texts
  ex_nexp,      \* history: the number of macro expansions so far
  ex_last,      \* history: the macro and the token of the latest expansion
  ex_scan,      \* history: the tokens the latest step handed to pop_macro_lock
  \* ---- preprocess on a list without directives and macros (preprocess.c) ----
  id_pc,        \* "idle" | "preprocess2" | "preprocess3" | "done" | "error"
  id_err,       \* the message of the fatal error, "" when there is none
  id_E,         \* opt_E
  id_macros,    \* the names of the defined macros
  id_src,       \* history: the token list handed to preprocess
  id_tok,       \* the tokens from the loop's cursor on
  id_out,       \* the tokens linked behind `head` so far
  id_attr,      \* the attributes waiting for the next token (attr_head.attr_next)
  \* ---- usual arithmetic conversion (type.c: get_common_type) ----
  cv_pc,        \* "idle" | "operands" | "done"
  cv_lhs,       \* the left operand: its type and, for a bit-field member, its width
  cv_rhs,       \* the right operand
  cv_ty,        \* the type get_common_type returned, or the internal error
  \* ---- argument passing (codegen.c calling_convention, place_reg_args, emit_text, va_arg) ----
  cl_pc,        \* "named", "variadic" or "done": which arguments are being passed
  cl_n,         \* the number of arguments passed so far
  cl_ret,       \* the return type of the called function
  cl_caller,    \* the caller: gp, fp, stack of calling_convention, rgp, rfp of place_reg_args
  cl_callee,    \* the callee: gp, fp, stack of calling_convention, rgp, rfp of the prologue
  cl_ap,        \* the callee va_list: gp_offset, fp_offset, overflow_arg_area
  cl_arg,       \* the argument passed last, as the caller placed it
  cl_read,      \* where the callee reads the argument passed last
  cl_used,      \* the stack arguments so far: offset from the caller's %rsp, size, align
  cl_retregs,   \* the registers copy_struct_reg loads the returned struct into
  \* ---- stack frame and temp-stack (codegen.c push_tmpstack, assign_lvar_offsets, gen_expr) ----
  fr_pc,        \* "locals", "body" or "done"
  fr_dont_reuse, \* dont_reuse_stack
  fr_scopes,    \* the scopes of the function with their local variables
  fr_locals,    \* the local variables with the offsets assign_lvar_offsets gave them
  fr_lvar_stk_sz, \* lvar_stk_sz
  fr_peak,      \* peak_stk_usage
  fr_tmp,       \* tmp_stk.data[0 .. tmp_stk.depth - 1]
  fr_slot,      \* the temporary slot handed out last: offset and size in 8-byte units
  fr_todo,      \* the calls of the code generator still to be made for the function body
  \* ---- jumps out of VLA scopes (parse.c stmt, resolve_goto_labels; codegen.c dealloc_vla) ----
  vl_pc,        \* "parse", "codegen", "done" or "error"
  vl_n,         \* the number of statements parsed so far
  vl_vla_next,  \* vla_next of every VLA declared so far, NULL for none
  vl_cur,       \* current_vla
  vl_loop,      \* brk_vla, cont_vla, and whether brk_label is set
  vl_blocks,    \* the compound statements that are open, with what their end restores
  vl_nodes,     \* the labels, gotos, breaks and continues of the function
  vl_fn,        \* fn_use_vla, dont_dealloc_vla, dont_reuse_stack, fn->dealloc_vla
  vl_scope,     \* the VLAs in scope at the statement parsed next, outermost first
  vl_out,       \* for each node the restore of %rsp emitted before its jump
  vl_err,       \* the message of the error that ended the parse
  \* ---- constant expression evaluation (parse.c eval2) ----
  ev_pc,        \* where the evaluation stands: "eval", "done", "exit" or "trap"
  ev_recover,   \* eval_recover is set (a call of is_const_expr)
  ev_failed,    \* *eval_recover, the failure recorded by eval_error
  ev_node,      \* the node evaluated last: kind, type, operands and value
  ev_n,         \* the operators of the expression so far
  ev_err,       \* the message of the fatal error
  ev_raised,    \* history: eval_error was called during this call
  ev_ret,       \* what the call returned: <<"bool", b>>, <<"int", v>>, <<>> before
  \* ---- enum bodies (parse.c enum_specifier) ----
  en_pc,        \* "body" while enumerators are read, then "accepted" or "error"
  en_ty,        \* ty: the underlying type (ty_uint with is_unspec_enum until chosen)
  en_has_type,  \* has_type: the enum names its underlying type
  en_s,         \* val, is_neg, is_ovf, need_u32, need_u64, need_i64, been_neg
  en_vals,      \* history: the values of the enumerators, as written
  en_err,       \* the message of the fatal error
  \* ---- initialized globals (parse.c gvar_initializer, codegen.c emit_data) ----
  gv_pc,        \* "start", "write", "emit", "done" or "error"
  gv_ty,        \* var->ty
  gv_calls,     \* the calls of write_gvar_data still to make: <<ty, offset>>, first in front
  gv_buf,       \* var->init_data, one byte per element
  gv_rel,       \* var->rel: <<offset, label, addend>> in list order
  gv_pos,       \* pos of emit_data
  gv_out,       \* the directives emitted for the object
  \* ---- the end of parse and codegen (parse.c mark_fn_live, codegen.c codegen) ----
  cg_pc,        \* "start", "roots", "mark", "data", "text", "note" or "done"
  cg_prog,      \* the list of globals, one Obj per element
  cg_live,      \* is_live of each Obj
  cg_stack,     \* the calls of mark_fn_live in progress: <<var, i>>, innermost first
  cg_i,         \* the Obj the running loop is at
  cg_out,       \* the lines of the output file, in file order
  cg_last,      \* history: the line written last
  \* ---- file-scope declarations of one variable (parse.c global_declaration) ----
  dc_pc,        \* "parse", "done" or "error"
  dc_var,       \* the Obj of the variable, <<>> while it is not declared
  dc_n,         \* the declarations processed
  dc_seen,      \* history: was one a non-extern definition, did one have an initializer
  dc_opt,       \* opt_fcommon
  dc_out        \* the section emit_data chose for the variable, "" for none

layoutVars == <<st_pc, st_attrs, st_members, st_decl, st_packed, st_size, st_align>>

dirVars == <<dr_pc, dr_err, dr_files, dr_in, dr_out, dr_cond, dr_macros, dr_once,
             dr_guards, dr_evald>>

exVars == <<ex_pc, ex_err, ex_tk, ex_mac, ex_lock, ex_locked, ex_stack, ex_result,
            ex_nexp, ex_last, ex_scan>>

idVars == <<id_pc, id_err, id_E, id_macros, id_src, id_tok, id_out, id_attr>>

cvVars == <<cv_pc, cv_lhs, cv_rhs, cv_ty>>

callVars == <<cl_pc, cl_n, cl_ret, cl_caller, cl_callee, cl_ap, cl_arg, cl_read, cl_used, cl_retregs>>

frameVars == <<fr_pc, fr_dont_reuse, fr_scopes, fr_locals, fr_lvar_stk_sz, fr_peak, fr_tmp, fr_slot, fr_todo>>

vlaVars == <<vl_pc, vl_n, vl_vla_next, vl_cur, vl_loop, vl_blocks, vl_nodes, vl_fn, vl_scope, vl_out, vl_err>>

evalVars == <<ev_pc, ev_recover, ev_failed, ev_node, ev_n, ev_err, ev_raised, ev_ret>>

enumVars == <<en_pc, en_ty, en_has_type, en_s, en_vals, en_err>>

gvarVars == <<gv_pc, gv_ty, gv_calls, gv_buf, gv_rel, gv_pos, gv_out>>

unitVars == <<cg_pc, cg_prog, cg_live, cg_stack, cg_i, cg_out, cg_last>>

declVars == <<dc_pc, dc_var, dc_n, dc_seen, dc_opt, dc_out>>

vars == <<layoutVars, dirVars, exVars, idVars,
          cvVars,
          callVars,
          frameVars,
          vlaVars,
          evalVars,
          enumVars,
          gvarVars,
          unitVars,
          declVars>>

\* A step of one subsystem leaves the other subsystems alone.
OnlyLayout ==
  UNCHANGED <<dirVars, exVars, idVars, cvVars, callVars, frameVars,
              vlaVars, evalVars, enumVars, gvarVars, unitVars, declVars>>
OnlyDir ==
  UNCHANGED <<layoutVars, exVars, idVars, cvVars, callVars, frameVars,
              vlaVars, evalVars, enumVars, gvarVars, unitVars, declVars>>
OnlyExpand ==
  UNCHANGED <<layoutVars, dirVars, idVars, cvVars, callVars, frameVars,
              vlaVars, evalVars, enumVars, gvarVars, unitVars, declVars>>
OnlyIdent ==
  UNCHANGED <<layoutVars, dirVars, exVars, cvVars, callVars, frameVars,
              vlaVars, evalVars, enumVars, gvarVars, unitVars, declVars>>
OnlyConv ==
  UNCHANGED <<layoutVars, dirVars, exVars, idVars, callVars, frameVars,
              vlaVars, evalVars, enumVars, gvarVars, unitVars, declVars>>
OnlyCall ==
  UNCHANGED <<layoutVars, dirVars, exVars, idVars, cvVars, frameVars,
              vlaVars, evalVars, enumVars, gvarVars, unitVars, declVars>>
OnlyFrame ==
  UNCHANGED <<layoutVars, dirVars, exVars, idVars, cvVars, callVars,
              vlaVars, evalVars, enumVars, gvarVars, unitVars, declVars>>
OnlyVla ==
  UNCHANGED <<layoutVars, dirVars, exVars, idVars, cvVars, callVars,
              frameVars, evalVars, enumVars, gvarVars, unitVars, declVars>>
OnlyEval ==
  UNCHANGED <<layoutVars, dirVars, exVars, idVars, cvVars, callVars,
              frameVars, vlaVars, enumVars, gvarVars, unitVars, declVars>>
OnlyEnum ==
  UNCHANGED <<layoutVars, dirVars, exVars, idVars, cvVars, callVars,
              frameVars, vlaVars, evalVars, gvarVars, unitVars, declVars>>
OnlyGvar ==
  UNCHANGED <<layoutVars, dirVars, exVars, idVars, cvVars, callVars,
              frameVars, vlaVars, evalVars, enumVars, unitVars, declVars>>
OnlyUnit ==
  UNCHANGED <<layoutVars, dirVars, exVars, idVars, cvVars, callVars,
              frameVars, vlaVars, evalVars, enumVars, gvarVars, declVars>>
OnlyDecl ==
  UNCHANGED <<layoutVars, dirVars, exVars, idVars, cvVars, callVars,
              frameVars, vlaVars, evalVars, enumVars, gvarVars, unitVars>>

\* The values of a subsystem's variables while another subsystem is run.
LayoutIdle ==
  /\ st_pc = "idle" /\ st_attrs = <<>> /\ st_members = <<>> /\ st_decl = <<>>
  /\ st_packed = FALSE /\ st_size = -1 /\ st_align = 1

DirIdle ==
  /\ dr_pc = "idle" /\ dr_err = "" /\ dr_files = <<>> /\ dr_in = <<>> /\ dr_out = <<>>
  /\ dr_cond = <<>> /\ dr_macros = {} /\ dr_once = {} /\ dr_guards = <<>>
  /\ dr_evald = {}

ExpandIdle ==
  /\ ex_pc = "idle" /\ ex_err = "" /\ ex_tk = <<>> /\ ex_mac = <<>> /\ ex_lock = <<>>
  /\ ex_locked = <<>> /\ ex_stack = <<>> /\ ex_result = <<>> /\ ex_nexp = 0
  /\ ex_last = <<>> /\ ex_scan = {}

IdentIdle ==
  /\ id_pc = "idle" /\ id_err = "" /\ id_E = FALSE /\ id_macros = {} /\ id_src = <<>>
  /\ id_tok = <<>> /\ id_out = <<>> /\ id_attr = <<>>

ConvIdle ==
  /\ cv_pc = "idle" /\ cv_lhs = <<>> /\ cv_rhs = <<>> /\ cv_ty = <<>>

CallIdle ==
  /\ cl_pc = "idle" /\ cl_n = 0 /\ cl_ret = <<>> /\ cl_caller = <<>>
  /\ cl_callee = <<>> /\ cl_ap = <<>> /\ cl_arg = <<>> /\ cl_read = <<>>
  /\ cl_used = <<>> /\ cl_retregs = <<>>

FrameIdle ==
  /\ fr_pc = "idle" /\ fr_dont_reuse = FALSE /\ fr_scopes = <<>> /\ fr_locals = <<>>
  /\ fr_lvar_stk_sz = 0 /\ fr_peak = 0 /\ fr_tmp = <<>> /\ fr_slot = <<>>
  /\ fr_todo = <<>>

VlaIdle ==
  /\ vl_pc = "idle" /\ vl_n = 0 /\ vl_vla_next = <<>> /\ vl_cur = 0 /\ vl_loop = <<>>
  /\ vl_blocks = <<>> /\ vl_nodes = <<>> /\ vl_fn = <<>> /\ vl_scope = <<>>
  /\ vl_out = <<>> /\ vl_err = ""

EvalIdle ==
  /\ ev_pc = "idle" /\ ev_recover = FALSE /\ ev_failed = FALSE /\ ev_node = <<>>
  /\ ev_n = 0 /\ ev_err = "" /\ ev_raised = FALSE /\ ev_ret = <<>>

EnumIdle ==
  /\ en_pc = "idle" /\ en_ty = <<>> /\ en_has_type = FALSE /\ en_s = <<>>
  /\ en_vals = <<>> /\ en_err = ""

GvarIdle ==
  /\ gv_pc = "idle" /\ gv_ty = <<>> /\ gv_calls = <<>> /\ gv_buf = <<>>
  /\ gv_rel = <<>> /\ gv_pos = 0 /\ gv_out = <<>>

UnitIdle ==
  /\ cg_pc = "idle" /\ cg_prog = <<>> /\ cg_live = <<>> /\ cg_stack = <<>> /\ cg_i = 0
  /\ cg_out = <<>> /\ cg_last = <<>>

DeclIdle ==
  /\ dc_pc = "idle" /\ dc_var = <<>> /\ dc_n = 0 /\ dc_seen = <<>> /\ dc_opt = FALSE
  /\ dc_out = ""

(***************************************************************************)
(*                         STRUCT LAYOUT (parse.c)                         *)
(***************************************************************************)

\* Bound: the number of members of the structs that are laid out.
MaxMembers == 3

\* codegen.c: align_to. C integer division; every operand here is >= 0.
align_to(n, align) == ((n + align - 1) \div align) * align

\* parse.c: align_down
align_down(n, align) == align_to(n - align + 1, align)

MAX(a, b) == IF a > b THEN a ELSE b

\* type.c: the sizes and alignments of the member types used as inputs.
\* "arr3" is char[3] (array_of: size base*len, align of base), "pk5" is a
\* nested packed struct {char; int;} (size 5, align 1).
TypeSize == [ char |-> 1, short |-> 2, int |-> 4, long |-> 8, ldouble |-> 16,
              arr3 |-> 3, pk5 |-> 5 ]
TypeAlign == [ char |-> 1, short |-> 2, int |-> 4, long |-> 8, ldouble |-> 16,
               arr3 |-> 1, pk5 |-> 1 ]

\* parse.c: struct_members builds one Member per declarator; a bit-field has
\* is_bitfield and bit_width >= 0 (a negative width is a fatal error), and
\* may be unnamed.  offset and bit_offset start at 0 (calloc).
Mem(ty, isbf, w, named) ==
  [ ty |-> ty, size |-> TypeSize[ty], align |-> TypeAlign[ty],
    is_bitfield |-> isbf, bit_width |-> w, named |-> named,
    offset |-> 0, bit_offset |-> 0 ]

\* The members a struct body can declare: plain members and bit-fields whose
\* width does not exceed the width of their declared type.
PlainMembers == { Mem(t, FALSE, 0, TRUE) : t \in {"char", "short", "int", "long", "ldouble", "arr3", "pk5"} }
BitMembers ==
  { Mem("char", TRUE, w, TRUE) : w \in {1, 5, 8} } \cup
  { Mem("int", TRUE, w, TRUE) : w \in {3, 30, 32} } \cup
  { Mem("int", TRUE, 0, FALSE), Mem("char", TRUE, 3, FALSE) }
MemberInputs == PlainMembers \cup BitMembers

RECURSIVE SeqsUpTo(_, _)
SeqsUpTo(S, n) ==
  IF n = 0 THEN { <<>> }
  ELSE LET shorter == SeqsUpTo(S, n - 1)
       IN shorter \cup { Append(s, x) : s \in { t \in shorter : Len(t) = n - 1 }, x \in S }

\* parse.c: attr_packed
attr_packed(attrs) ==
  \E i \in 1..Len(attrs) : attrs[i] \in {"packed", "__packed__"}

\* The bit position at which a member that is not a bit-field starts, packed
\* as if every member were aligned to its type.
NonBitfieldStartAligned(bits, mem, packed) == align_to(bits, mem.align * 8)

\* The bit position at which a member that is not a bit-field starts, with
\* the packed branch taken for every struct.
NonBitfieldStartPacked(bits, mem, packed) == align_to(bits, 8)

\* parse.c: struct_decl, lines 2878-2881
NonBitfieldStart(bits, mem, packed) ==
  IF packed THEN align_to(bits, 8) ELSE align_to(bits, mem.align * 8)

\* parse.c: struct_decl, lines 2868-2871: the start of a bit-field of
\* non-zero width.
BitfieldStart(bits, mem, packed) ==
  LET sz == mem.size IN
  IF ~packed /\ (bits \div (sz * 8)) # ((bits + mem.bit_width - 1) \div (sz * 8))
    THEN align_to(bits, sz * 8)
    ELSE bits

\* parse.c: struct_decl, one iteration of the loop over ty->members.
\* s = [bits, max_align, out]: out is the rebuilt member list (unnamed
\* bit-fields are dropped from it).
StructDeclStep(s, mem, packed) ==
  LET keep == ~mem.is_bitfield \/ mem.named
      ma == IF keep THEN MAX(s.max_align, mem.align) ELSE s.max_align
  IN
  IF mem.is_bitfield /\ mem.bit_width = 0 THEN
    [ bits |-> align_to(s.bits, mem.size * 8), max_align |-> ma,
      out |-> IF keep THEN Append(s.out, mem) ELSE s.out ]
  ELSE IF mem.is_bitfield THEN
    LET b == BitfieldStart(s.bits, mem, packed)
        m2 == [mem EXCEPT !.offset = align_down(b \div 8, mem.size),
                          !.bit_offset = b % (mem.size * 8)]
    IN [ bits |-> b + mem.bit_width, max_align |-> ma,
         out |-> IF keep THEN Append(s.out, m2) ELSE s.out ]
  ELSE
    LET b == NonBitfieldStart(s.bits, mem, packed)
        m2 == [mem EXCEPT !.offset = b \div 8]
    IN [ bits |-> b + mem.size * 8, max_align |-> ma, out |-> Append(s.out, m2) ]

RECURSIVE StructDeclLoop(_, _, _, _)
StructDeclLoop(s, members, i, packed) ==
  IF i > Len(members) THEN s
  ELSE StructDeclLoop(StructDeclStep(s, members[i], packed), members, i + 1, packed)

\* parse.c: struct_decl. The type enters with align 1 (new_type(kind, -1, 1)).
struct_decl(members, packed) ==
  LET s == StructDeclLoop([bits |-> 0, max_align |-> 0, out |-> <<>>], members, 1, packed)
      al == IF ~packed /\ s.max_align # 0 THEN s.max_align ELSE 1
      sz == IF packed THEN align_to(s.bits, 8) \div 8
                      ELSE align_to(s.bits, al * 8) \div 8
  IN [ members |-> s.out, align |-> al, size |-> sz ]

\* parse.c: struct_union_decl up to the call of struct_decl: the type is
\* new_type(TY_STRUCT, -1, 1), struct_members has read the body, and the
\* attribute list is still to be looked at.
LayoutInit ==
  /\ st_pc = "parsed"
  /\ st_attrs \in { <<>>, <<"packed">>, <<"__packed__">> }
  /\ st_members \in SeqsUpTo(MemberInputs, MaxMembers)
  /\ st_decl = st_members
  /\ st_packed = FALSE
  /\ st_size = -1
  /\ st_align = 1
  /\ DirIdle /\ ExpandIdle /\ IdentIdle /\ ConvIdle /\ CallIdle /\ FrameIdle /\ VlaIdle /\ EvalIdle /\ EnumIdle /\ GvarIdle /\ UnitIdle /\ DeclIdle

\* parse.c: struct_union_decl: attr_packed, then struct_decl.
StructDecl ==
  /\ st_pc = "parsed"
  /\ LET packed == attr_packed(st_attrs)
         ty == struct_decl(st_members, packed)
     IN /\ st_packed' = packed
        /\ st_members' = ty.members
        /\ st_size' = ty.size
        /\ st_align' = ty.align
  /\ st_pc' = "done"
  /\ UNCHANGED <<st_attrs, st_decl>>
  /\ OnlyLayout

NextLayout == StructDecl

SpecLayout == LayoutInit /\ [][NextLayout]_vars

\* ---- claims about the layout ----

RECURSIVE SumSizes(_, _)
SumSizes(members, n) ==
  IF n = 0 THEN 0 ELSE SumSizes(members, n - 1) + members[n].size

\* C8: in a struct that is not packed, the offset of every member that is
\* not a bit-field is a multiple of the member's alignment, and the size of
\* the struct is a multiple of the struct's alignment.
C8_AlignedLayout ==
  (st_pc = "done" /\ ~st_packed) =>
    /\ \A i \in 1..Len(st_members) :
         ~st_members[i].is_bitfield => st_members[i].offset % st_members[i].align = 0
    /\ st_size % st_align = 0

\* A laid-out unpacked struct in which a member had to be padded.
C8_Witness ==
  /\ st_pc = "done" /\ ~st_packed
  /\ \E i \in 2..Len(st_members) :
       /\ ~st_members[i].is_bitfield /\ ~st_members[i - 1].is_bitfield
       /\ st_members[i].offset > st_members[i - 1].offset + st_members[i - 1].size

\* C9: for every bit-field member of a laid-out struct, packed or not,
\* bit_offset + bit_width is at most 8 times the size of its declared type.
C9_BitfieldInUnit ==
  st_pc = "done" =>
    \A i \in 1..Len(st_members) :
      st_members[i].is_bitfield =>
        st_members[i].bit_offset + st_members[i].bit_width <= 8 * st_members[i].size

\* C10: in a packed struct whose members are all not bit-fields, every
\* member's offset is the sum of the sizes of the members before it and the
\* size is the sum of all member sizes; {char a; int b;} has b at 1, size 5.
C10_PackedNoPadding ==
  (st_pc = "done" /\ st_packed /\ \A i \in 1..Len(st_decl) : ~st_decl[i].is_bitfield) =>
    /\ \A i \in 1..Len(st_members) : st_members[i].offset = SumSizes(st_members, i - 1)
    /\ st_size = SumSizes(st_members, Len(st_members))
    /\ (Len(st_members) = 2 /\ st_members[1].ty = "char" /\ st_members[2].ty = "int") =>
         (st_members[2].offset = 1 /\ st_size = 5)

\* The packed struct {char a; int b;} laid out.
C10_Witness ==
  /\ st_pc = "done" /\ st_packed
  /\ Len(st_decl) = 2 /\ Len(st_members) = 2
  /\ st_members[1].ty = "char" /\ ~st_members[1].is_bitfield
  /\ st_members[2].ty = "int" /\ ~st_members[2].is_bitfield
  /\ st_members[2].offset = 1 /\ st_size = 5

(***************************************************************************)
(*              DIRECTIVES AND INCLUSION (preprocess.c)                    *)
(*                                                                         *)
(* The token list is kept line by line: a line is a directive (the `#` at  *)
(* the beginning of a line, the directive name and its operand) or a run   *)
(* of ordinary tokens ("text").  The condition of #if and #elif is the     *)
(* literal 0 or 1.                                                         *)
(***************************************************************************)

\* Bound: the number of lines of a main file made of conditional directives.
MaxCondLines == 5
\* Bound: the number of lines of a main file that includes the header.
MaxInclLines == 3

L(k, v) == [k |-> k, v |-> v]

CondAlphabet ==
  { L("text", 0), L("if", 0), L("if", 1), L("elif", 0), L("elif", 1), L("else", 0),
    L("endif", 0) }

InclAlphabet ==
  { L("text", 0), L("include", "h"), L("define", "G"), L("undef", "G") }

\* Two adjacent text lines are one run of ordinary tokens.
NoTextPair(s) == \A i \in 1..(Len(s) - 1) : ~(s[i].k = "text" /\ s[i + 1].k = "text")

CondMains == { s \in SeqsUpTo(CondAlphabet, MaxCondLines) : NoTextPair(s) }
InclMains == { s \in SeqsUpTo(InclAlphabet, MaxInclLines) : NoTextPair(s) }

\* The headers that are included: guarded, guarded with #else or #elif,
\* marked by #pragma once, unguarded, and the shapes that look like a guard
\* and are not one.
Headers ==
  { << L("ifndef", "G"), L("define", "G"), L("text", 0), L("endif", 0) >>,
    << L("ifndef", "G"), L("text", 0), L("endif", 0) >>,
    << L("pragma_once", 0), L("text", 0) >>,
    << L("text", 0) >>,
    << >>,
    << L("ifndef", "G"), L("define", "G"), L("text", 0), L("else", 0), L("text", 0),
       L("endif", 0) >>,
    << L("ifndef", "G"), L("define", "G"), L("text", 0), L("elif", 1), L("text", 0),
       L("endif", 0) >>,
    << L("ifndef", "G"), L("define", "G"), L("endif", 0), L("text", 0) >>,
    << L("text", 0), L("ifndef", "G"), L("define", "G"), L("endif", 0) >>,
    << L("ifndef", "G"), L("define", "G"), L("endif", 0), L("ifndef", "G"), L("text", 0),
       L("endif", 0) >>,
    << L("ifndef", "G"), L("if", 1), L("define", "G"), L("endif", 0), L("text", 0),
       L("endif", 0) >>,
    << L("ifdef", "G"), L("text", 0), L("endif", 0) >> }

IsIfKind(k) == k \in {"if", "ifdef", "ifndef"}

\* preprocess.c: skip_cond_incl2: from inside a nested conditional to the
\* token after its #endif.
RECURSIVE skip_cond_incl2(_)
skip_cond_incl2(toks) ==
  IF toks = <<>> THEN <<>>
  ELSE IF IsIfKind(Head(toks).k) THEN skip_cond_incl2(skip_cond_incl2(Tail(toks)))
  ELSE IF Head(toks).k = "endif" THEN Tail(toks)
  ELSE skip_cond_incl2(Tail(toks))

\* preprocess.c: skip_cond_incl: to the next #elif, #else or #endif of the
\* current conditional, nested conditionals skipped.
RECURSIVE skip_cond_incl(_)
skip_cond_incl(toks) ==
  IF toks = <<>> THEN <<>>
  ELSE IF IsIfKind(Head(toks).k) THEN skip_cond_incl(skip_cond_incl2(Tail(toks)))
  ELSE IF Head(toks).k \in {"elif", "else", "endif"} THEN toks
  ELSE skip_cond_incl(Tail(toks))

\* tokenize_file: the tokens of a file, each with its file and position;
\* guard_file is not set.
TokenizeFile(files, path) ==
  [ i \in 1..Len(files[path]) |->
      [ k |-> files[path][i].k, v |-> files[path][i].v, file |-> path, idx |-> i,
        gf |-> "none" ] ]

\* preprocess.c: include_file, lines 926-928: the first #ifndef and the last
\* token of the file are given guard_file = path.
MarkGuard(toks, path) ==
  IF toks # <<>> /\ toks[1].k = "ifndef" /\ toks[Len(toks)].k = "endif"
    THEN [ i \in 1..Len(toks) |->
             IF i = 1 \/ i = Len(toks) THEN [toks[i] EXCEPT !.gf = path] ELSE toks[i] ]
    ELSE toks

\* The test of include_file that skips a guarded file, without the lookup
\* of the guard macro.
GuardSkipsAlways(guards, macros, path) == guards[path] # "none"

\* preprocess.c: include_file, lines 905-907
GuardSkips(guards, macros, path) ==
  guards[path] # "none" /\ guards[path] \in macros

\* preprocess.c: include_file: the token list with which the cursor goes on.
include_file(rest, path, files, once, guards, macros) ==
  IF path \in once THEN rest
  ELSE IF GuardSkips(guards, macros, path) THEN rest
  ELSE IF files[path] = <<>> THEN rest
  ELSE MarkGuard(TokenizeFile(files, path), path) \o rest

\* preprocess.c: push_cond_incl. tok is kept as the guard_file of the token
\* (of `ifndef`; the `#` of #if and the `ifdef` token never carry one) and
\* the name after it.
push_cond_incl(cond, gf, name, included) ==
  << [ctx |-> "IN_THEN", included |-> included, gf |-> gf, name |-> name] >> \o cond

DirInit ==
  /\ dr_pc = "run"
  /\ dr_err = ""
  /\ \/ /\ dr_files \in { [main |-> m, h |-> <<>>] : m \in CondMains }
     \/ /\ dr_files \in { [main |-> m, h |-> hd] : m \in InclMains, hd \in Headers }
  /\ dr_in = TokenizeFile(dr_files, "main")
  /\ dr_out = <<>>
  /\ dr_cond = <<>>
  /\ dr_macros = {}
  /\ dr_once = {}
  /\ dr_guards = [main |-> "none", h |-> "none"]
  /\ dr_evald = {}
  /\ LayoutIdle /\ ExpandIdle /\ IdentIdle /\ ConvIdle /\ CallIdle /\ FrameIdle /\ VlaIdle /\ EvalIdle /\ EnumIdle /\ GvarIdle /\ UnitIdle /\ DeclIdle

DirAt(k) == dr_pc = "run" /\ dr_in # <<>> /\ Head(dr_in).k = k

Fatal(msg) ==
  /\ dr_pc' = "error"
  /\ dr_err' = msg
  /\ UNCHANGED <<dr_files, dr_in, dr_out, dr_cond, dr_macros, dr_once, dr_guards, dr_evald>>

\* preprocess.c: preprocess2, lines 985-989: an ordinary token is emitted.
EmitText ==
  /\ DirAt("text")
  /\ OnlyDir
  /\ dr_out' = Append(dr_out, Head(dr_in))
  /\ dr_in' = Tail(dr_in)
  /\ UNCHANGED <<dr_pc, dr_err, dr_files, dr_cond, dr_macros, dr_once, dr_guards, dr_evald>>

\* preprocess.c: directives, #if
DirIf ==
  /\ DirAt("if")
  /\ OnlyDir
  /\ LET val == Head(dr_in).v = 1 IN
     /\ dr_evald' = dr_evald \cup { <<Head(dr_in).file, Head(dr_in).idx>> }
     /\ dr_cond' = push_cond_incl(dr_cond, "none", "none", val)
     /\ dr_in' = IF val THEN Tail(dr_in) ELSE skip_cond_incl(Tail(dr_in))
  /\ UNCHANGED <<dr_pc, dr_err, dr_files, dr_out, dr_macros, dr_once, dr_guards>>

\* preprocess.c: directives, #ifdef
DirIfdef ==
  /\ DirAt("ifdef")
  /\ OnlyDir
  /\ LET defined == Head(dr_in).v \in dr_macros IN
     /\ dr_cond' = push_cond_incl(dr_cond, "none", Head(dr_in).v, defined)
     /\ dr_in' = IF defined THEN Tail(dr_in) ELSE skip_cond_incl(Tail(dr_in))
  /\ UNCHANGED <<dr_pc, dr_err, dr_files, dr_out, dr_macros, dr_once, dr_guards, dr_evald>>

\* preprocess.c: directives, #ifndef
DirIfndef ==
  /\ DirAt("ifndef")
  /\ OnlyDir
  /\ LET defined == Head(dr_in).v \in dr_macros IN
     /\ dr_cond' = push_cond_incl(dr_cond, Head(dr_in).gf, Head(dr_in).v, ~defined)
     /\ dr_in' = IF defined THEN skip_cond_incl(Tail(dr_in)) ELSE Tail(dr_in)
  /\ UNCHANGED <<dr_pc, dr_err, dr_files, dr_out, dr_macros, dr_once, dr_guards, dr_evald>>

\* The test of #elif and #else for a stray directive, without the test
\* for a directive after #else.
StrayNoElseTest(cond) == cond = <<>>

\* preprocess.c: directives, lines 1060 and 1072
Stray(cond) == cond = <<>> \/ cond[1].ctx = "IN_ELSE"

\* #elif evaluated whatever the earlier branches did.
ElifTakesAlways(top, val) == val

\* preprocess.c: directives, line 1064: the condition of #elif is read only
\* when no branch was included.
ElifTakes(top, val) == ~top.included /\ val

\* preprocess.c: directives, #elif
DirElif ==
  /\ DirAt("elif")
  /\ OnlyDir
  /\ IF Stray(dr_cond) THEN Fatal("stray #elif")
     ELSE LET top == dr_cond[1]
              takes == ElifTakes(top, Head(dr_in).v = 1)
          IN /\ dr_evald' = IF ~top.included
                              THEN dr_evald \cup { <<Head(dr_in).file, Head(dr_in).idx>> }
                              ELSE dr_evald
             /\ dr_cond' = [dr_cond EXCEPT ![1] =
                              [top EXCEPT !.ctx = "IN_ELIF",
                                          !.included = top.included \/ takes]]
             /\ dr_in' = IF takes THEN Tail(dr_in) ELSE skip_cond_incl(Tail(dr_in))
             /\ UNCHANGED <<dr_pc, dr_err, dr_files, dr_out, dr_macros, dr_once, dr_guards>>

\* preprocess.c: directives, #else
DirElse ==
  /\ DirAt("else")
  /\ OnlyDir
  /\ IF Stray(dr_cond) THEN Fatal("stray #else")
     ELSE /\ dr_cond' = [dr_cond EXCEPT ![1].ctx = "IN_ELSE"]
          /\ dr_in' = IF dr_cond[1].included THEN skip_cond_incl(Tail(dr_in))
                                             ELSE Tail(dr_in)
          /\ UNCHANGED <<dr_pc, dr_err, dr_files, dr_out, dr_macros, dr_once, dr_guards,
                         dr_evald>>

\* preprocess.c: directives, #endif
DirEndif ==
  /\ DirAt("endif")
  /\ OnlyDir
  /\ IF dr_cond = <<>> THEN Fatal("stray #endif")
     ELSE LET tok == Head(dr_in) IN
          /\ dr_guards' = IF tok.gf # "none" /\ tok.gf = dr_cond[1].gf
                            THEN [dr_guards EXCEPT ![tok.gf] = dr_cond[1].name]
                            ELSE dr_guards
          /\ dr_cond' = Tail(dr_cond)
          /\ dr_in' = Tail(dr_in)
          /\ UNCHANGED <<dr_pc, dr_err, dr_files, dr_out, dr_macros, dr_once, dr_evald>>

\* preprocess.c: directives, #define (read_macro_definition, add_macro)
DirDefine ==
  /\ DirAt("define")
  /\ OnlyDir
  /\ dr_macros' = dr_macros \cup { Head(dr_in).v }
  /\ dr_in' = Tail(dr_in)
  /\ UNCHANGED <<dr_pc, dr_err, dr_files, dr_out, dr_cond, dr_once, dr_guards, dr_evald>>

\* preprocess.c: directives, #undef (undef_macro)
DirUndef ==
  /\ DirAt("undef")
  /\ OnlyDir
  /\ dr_macros' = dr_macros \ { Head(dr_in).v }
  /\ dr_in' = Tail(dr_in)
  /\ UNCHANGED <<dr_pc, dr_err, dr_files, dr_out, dr_cond, dr_once, dr_guards, dr_evald>>

\* preprocess.c: directives, #include
DirInclude ==
  /\ DirAt("include")
  /\ OnlyDir
  /\ dr_in' = include_file(Tail(dr_in), Head(dr_in).v, dr_files, dr_once, dr_guards,
                           dr_macros)
  /\ UNCHANGED <<dr_pc, dr_err, dr_files, dr_out, dr_cond, dr_macros, dr_once, dr_guards,
                 dr_evald>>

\* preprocess.c: directives, #pragma once
DirPragmaOnce ==
  /\ DirAt("pragma_once")
  /\ OnlyDir
  /\ dr_once' = dr_once \cup { Head(dr_in).file }
  /\ dr_in' = Tail(dr_in)
  /\ UNCHANGED <<dr_pc, dr_err, dr_files, dr_out, dr_cond, dr_macros, dr_guards, dr_evald>>

\* preprocess.c: preprocess, lines 1520-1522: the loop of preprocess2 has
\* reached the end of the input.
DirFinish ==
  /\ dr_pc = "run" /\ dr_in = <<>>
  /\ OnlyDir
  /\ IF dr_cond # <<>> THEN Fatal("unterminated conditional directive")
     ELSE /\ dr_pc' = "done"
          /\ UNCHANGED <<dr_err, dr_files, dr_in, dr_out, dr_cond, dr_macros, dr_once,
                         dr_guards, dr_evald>>

NextDir ==
  \/ EmitText \/ DirIf \/ DirIfdef \/ DirIfndef \/ DirElif \/ DirElse \/ DirEndif
  \/ DirDefine \/ DirUndef \/ DirInclude \/ DirPragmaOnce \/ DirFinish

SpecDir == DirInit /\ [][NextDir]_vars

\* ---- claims about conditionals and inclusion ----

\* The conditional groups open before line n of a file, innermost first, by
\* the nesting of the directive lines alone; each group is the list of the
\* lines of its #if, #elif and #else directives so far.  ok is FALSE when a
\* directive before line n had no group to belong to.
RECURSIVE RefScan(_, _, _, _)
RefScan(lines, j, n, r) ==
  IF j >= n \/ ~r.ok THEN r
  ELSE LET k == lines[j].k IN
       IF IsIfKind(k) THEN RefScan(lines, j + 1, n, [ok |-> TRUE, st |-> << <<j>> >> \o r.st])
       ELSE IF k \in {"elif", "else"} THEN
         IF r.st = <<>> THEN [ok |-> FALSE, st |-> <<>>]
         ELSE RefScan(lines, j + 1, n,
                      [ok |-> TRUE, st |-> << Append(r.st[1], j) >> \o Tail(r.st)])
       ELSE IF k = "endif" THEN
         IF r.st = <<>> THEN [ok |-> FALSE, st |-> <<>>]
         ELSE RefScan(lines, j + 1, n, [ok |-> TRUE, st |-> Tail(r.st)])
       ELSE RefScan(lines, j + 1, n, r)

RefStackAt(lines, n) == RefScan(lines, 1, n, [ok |-> TRUE, st |-> <<>>])

CondTrue(lines, b) ==
  lines[b].k = "else" \/ (lines[b].k \in {"if", "elif"} /\ lines[b].v = 1)

\* The branch a line is in (the last directive of the group) is the one the
\* group selects: its condition is true and no earlier one of the group is.
Selected(lines, branches) ==
  /\ CondTrue(lines, branches[Len(branches)])
  /\ \A j \in 1..(Len(branches) - 1) : ~CondTrue(lines, branches[j])

ExpectedOut(lines) ==
  { i \in 1..Len(lines) :
      /\ lines[i].k = "text"
      /\ LET r == RefStackAt(lines, i) IN
         r.ok /\ \A g \in 1..Len(r.st) : Selected(lines, r.st[g]) }

MainOut == { dr_out[i].idx : i \in { j \in 1..Len(dr_out) : dr_out[j].file = "main" } }

\* C3: of one conditional group the tokens of at most one branch reach the
\* output, the first branch whose condition is true or else the #else
\* branch; an #elif condition is evaluated only if no earlier branch of its
\* group was taken.
C3_OneBranch ==
  dr_pc # "idle" =>
    /\ MainOut \subseteq ExpectedOut(dr_files.main)
    /\ dr_pc = "done" => MainOut = ExpectedOut(dr_files.main)
    /\ \A e \in dr_evald :
         (e[1] = "main" /\ dr_files.main[e[2]].k = "elif") =>
           LET r == RefStackAt(dr_files.main, e[2]) IN
           /\ r.ok /\ r.st # <<>>
           /\ \A j \in 1..Len(r.st[1]) : ~CondTrue(dr_files.main, r.st[1][j])

\* A finished run that emitted the tokens of an #elif branch and left the
\* condition of another #elif unevaluated.
C3_Witness ==
  /\ dr_pc = "done"
  /\ \E i \in MainOut :
       LET r == RefStackAt(dr_files.main, i) IN
       r.st # <<>> /\ dr_files.main[r.st[1][Len(r.st[1])]].k = "elif"
  /\ \E j \in 1..Len(dr_files.main) :
       dr_files.main[j].k = "elif" /\ <<"main", j>> \notin dr_evald

\* C4: #elif or #else with no conditional open or after the #else of the
\* group, and #endif with no conditional open, stop with a `stray` error;
\* the end of the input with a conditional open stops with `unterminated
\* conditional directive`; a run succeeds only with the stack empty.
C4_StrayUnterminated ==
  [][ /\ (DirAt("elif") /\ (dr_cond = <<>> \/ dr_cond[1].ctx = "IN_ELSE"))
           => (dr_pc' = "error" /\ dr_err' = "stray #elif")
      /\ (DirAt("else") /\ (dr_cond = <<>> \/ dr_cond[1].ctx = "IN_ELSE"))
           => (dr_pc' = "error" /\ dr_err' = "stray #else")
      /\ (DirAt("endif") /\ dr_cond = <<>>)
           => (dr_pc' = "error" /\ dr_err' = "stray #endif")
      /\ (dr_pc = "run" /\ dr_in = <<>> /\ dr_cond # <<>>)
           => (dr_pc' = "error" /\ dr_err' = "unterminated conditional directive")
      /\ dr_pc' = "done" => (dr_in' = <<>> /\ dr_cond' = <<>>) ]_vars

\* A second #else of one group has stopped the run.
C4_Witness ==
  /\ dr_pc = "error" /\ dr_err = "stray #else"
  /\ dr_cond # <<>> /\ dr_cond[1].ctx = "IN_ELSE"

\* A file for which a guard may be recorded: it begins with #ifndef NAME,
\* its last token is endif, and that #endif closes the first #ifndef.
GuardShape(lines, name) ==
  /\ Len(lines) >= 2
  /\ lines[1].k = "ifndef" /\ lines[1].v = name
  /\ lines[Len(lines)].k = "endif"
  /\ LET r == RefStackAt(lines, Len(lines)) IN
     r.ok /\ Len(r.st) = 1 /\ r.st[1][1] = 1

\* C5: an inclusion adds no tokens when the file was marked by #pragma once
\* or has a recorded guard whose macro is defined; otherwise the file is
\* read again; a guard is recorded only for a file of the guard shape.
C5_IncludeSkipped ==
  /\ [][ DirAt("include") =>
           LET p == Head(dr_in).v IN
           IF p \in dr_once \/ (dr_guards[p] # "none" /\ dr_guards[p] \in dr_macros)
             THEN dr_in' = Tail(dr_in) /\ dr_out' = dr_out
             ELSE /\ Len(dr_in') = Len(dr_files[p]) + Len(dr_in) - 1
                  /\ \A i \in 1..Len(dr_files[p]) :
                       /\ dr_in'[i].file = p /\ dr_in'[i].idx = i
                       /\ dr_in'[i].k = dr_files[p][i].k ]_vars
  /\ [](dr_pc # "idle" =>
          \A p \in {"main", "h"} :
            dr_guards[p] # "none" => GuardShape(dr_files[p], dr_guards[p]))

\* The header was included twice, its guard was recorded and defined, and
\* its tokens reached the output once.
C5_Witness ==
  /\ dr_pc = "done"
  /\ dr_guards.h # "none" /\ dr_guards.h \in dr_macros
  /\ Len(dr_files.main) = 2
  /\ dr_files.main[1].k = "include" /\ dr_files.main[2].k = "include"
  /\ Len(dr_out) = 1

(***************************************************************************)
(* Macro expansion: preprocess2, expand_macro, prepare_funclike_args,      *)
(* read_macro_args, subst, expand_arg, insert_objlike, insert_funclike     *)
(* and the macro lock stack (src/preprocess.c).                            *)
(*                                                                         *)
(* Tokens live in ex_tk and are named by their index, so that the          *)
(* comparison locked_macros->stop_tok == tok is a comparison of            *)
(* identities as in the source.  A token is a record                       *)
(*   [t: text, k: kind, next: id or NULL, dx: dont_expand, anc: history]   *)
(* where anc is the set of the macros whose expansion the token came out   *)
(* of.  Replacement lists hold no "#", and "##" only in the GNU form       *)
(* `, ## <variadic parameter>`; the input holds no directive.  No macro    *)
(* has a handler (__LINE__ and the like) and none is the __attribute__ of  *)
(* cdefs.h.  Whitespace flags (at_bol, has_space) and the origin used by   *)
(* diagnostics are left out.                                               *)
(***************************************************************************)
NULL == 0

MaxInput == 4        \* the longest input token list, without the menu's first tokens
MaxTokens == 60      \* no expansion starts once ex_tk holds this many tokens

Tok(t, k) == [t |-> t, k |-> k, next |-> NULL, dx |-> FALSE, anc |-> {}]

KindOfText(t) ==
  IF t \in {"(", ")", ",", "##"} THEN "punct"
  ELSE IF t \in {"1", "2"} THEN "num"
  ELSE "id"

\* new_eof: a copy of the token whose kind is TK_EOF and whose length is 0
new_eof(T) == [T EXCEPT !.t = "", !.k = "eof", !.next = NULL]

\* new_pmark: a copy of the token whose kind is TK_PMARK and whose length is 0
new_pmark(T) == [T EXCEPT !.t = "", !.k = "pmark", !.next = NULL]

\* equal(tok, op): the text of the token is op (TK_EOF and TK_PMARK have no text)
equal(T, op) == T.k \notin {"eof", "pmark"} /\ T.t = op

\* the records recs stored as new tokens, each linked to the one after it
\* and the last one linked to `last`
Alloc(tk, recs, last) ==
  tk \o [i \in 1..Len(recs) |->
           [recs[i] EXCEPT !.next = IF i = Len(recs) THEN last ELSE Len(tk) + i + 1]]

\* the tokenizer's list for a sequence of texts, closed by a TK_EOF token
TokenList(tk, texts) ==
  Alloc(tk, [i \in 1..Len(texts) |-> Tok(texts[i], KindOfText(texts[i]))]
            \o <<Tok("", "eof")>>, NULL)

\* F applied to the value of x: the value is computed once, however
\* often F uses it
Bind(x, F(_)) == CHOOSE r \in {F(v) : v \in {x}} : TRUE

\* the ids of a list from tok up to, and without, its TK_EOF token
RECURSIVE ListFrom(_, _)
ListFrom(tk, s) ==
  IF tk[s.tok].k = "eof" THEN s.ids
  ELSE Bind([tok |-> tk[s.tok].next, ids |-> Append(s.ids, s.tok)],
            LAMBDA n : ListFrom(tk, n))

ListIds(tk, tok) == Bind([tok |-> tok, ids |-> <<>>], LAMBDA s : ListFrom(tk, s))

TextsOf(recs) == [i \in 1..Len(recs) |-> recs[i].t]

\* find_macro: the token is an identifier that names a defined macro
find_macro(mac, T) == T.k = "id" /\ T.t \in DOMAIN mac

\* The lock state is the pair of the Macro fields and the locked_macros list.
LockState(lock, locked) == [lock |-> lock, locked |-> locked]

push_macro_lock_nothing(lk, m, tok) == lk

push_macro_lock(lk, m, tok) ==
  [lock |-> [lk.lock EXCEPT ![m] = [is_locked |-> TRUE, stop_tok |-> tok]],
   locked |-> <<m>> \o lk.locked]

RECURSIVE PopWhile(_, _)
PopWhile(lk, tok) ==
  IF lk.locked # <<>> /\ lk.lock[Head(lk.locked)].stop_tok = tok
  THEN Bind([lock |-> [lk.lock EXCEPT ![Head(lk.locked)].is_locked = FALSE],
             locked |-> Tail(lk.locked)],
            LAMBDA n : PopWhile(n, tok))
  ELSE lk

pop_macro_lock(lk, tok) == Bind(lk, LAMBDA v : PopWhile(v, tok))

IsLockedNever(lock, m) == FALSE

\* m->is_locked
IsLocked(lock, m) == lock[m].is_locked

\* prepare_funclike_args, one turn of its loop at the token s.tok
PrepareStep(mac, s) ==
  LET T == s.tk[s.tok]
      lk1 == IF s.lk.locked # <<>> THEN pop_macro_lock(s.lk, s.tok) ELSE s.lk
      mark == /\ s.lk.locked # <<>>
              /\ find_macro(mac, T)
              /\ IsLocked(lk1.lock, T.t)
  IN [tk |-> IF mark THEN [s.tk EXCEPT ![s.tok].dx = TRUE] ELSE s.tk,
      lk |-> lk1,
      tok |-> T.next,
      lvl |-> IF equal(T, "(") THEN s.lvl + 1
              ELSE IF equal(T, ")") THEN s.lvl - 1 ELSE s.lvl,
      scan |-> IF s.lk.locked # <<>> THEN s.scan \cup {s.tok} ELSE s.scan,
      last |-> s.lvl = 0 /\ equal(T, ")")]

\* prepare_funclike_args, the loop: [ok, tk, lk, stop, scan]
RECURSIVE PrepareWalk(_, _)
PrepareWalk(mac, s) ==
  IF s.tk[s.tok].k = "eof"
  THEN [ok |-> FALSE, tk |-> s.tk, lk |-> s.lk, stop |-> NULL, scan |-> s.scan]
  ELSE Bind(PrepareStep(mac, s),
            LAMBDA n : IF n.last
                       THEN [ok |-> TRUE, tk |-> n.tk, lk |-> n.lk, stop |-> n.tok,
                             scan |-> n.scan]
                       ELSE PrepareWalk(mac, n))

prepare_funclike_args(mac, tk, lk, start) ==
  Bind([tk |-> tk, lk |-> pop_macro_lock(lk, start), tok |-> tk[start].next,
        lvl |-> 0, scan |-> {start}, last |-> FALSE],
       LAMBDA s : PrepareWalk(mac, s))

\* read_macro_arg_one, the scan: the ids of the argument's tokens and the
\* token that ends it
RECURSIVE ArgSpan(_, _, _)
ArgSpan(tk, s, read_rest) ==
  IF s.level = 0 /\ equal(tk[s.tok], ")")
  THEN [ok |-> TRUE, ids |-> s.ids, rest |-> s.tok]
  ELSE IF s.level = 0 /\ ~read_rest /\ equal(tk[s.tok], ",")
  THEN [ok |-> TRUE, ids |-> s.ids, rest |-> s.tok]
  ELSE IF tk[s.tok].k = "eof"
  THEN [ok |-> FALSE, ids |-> s.ids, rest |-> s.tok]
  ELSE Bind([tok |-> tk[s.tok].next,
             level |-> IF equal(tk[s.tok], "(") THEN s.level + 1
                       ELSE IF equal(tk[s.tok], ")") THEN s.level - 1 ELSE s.level,
             ids |-> Append(s.ids, s.tok)],
            LAMBDA n : ArgSpan(tk, n, read_rest))

\* read_macro_arg_one: the argument is a copy of its tokens, closed by new_eof
read_macro_arg_one(tk, tok, read_rest) ==
  Bind(ArgSpan(tk, [tok |-> tok, level |-> 0, ids |-> <<>>], read_rest),
       LAMBDA sp :
         IF ~sp.ok
         THEN [ok |-> FALSE, err |-> "unterminated list", tk |-> tk, arg |-> NULL,
               rest |-> NULL]
         ELSE [ok |-> TRUE, err |-> "",
               tk |-> Alloc(tk, [i \in 1..Len(sp.ids) |-> tk[sp.ids[i]]]
                                \o <<new_eof(tk[sp.rest])>>, NULL),
               arg |-> Len(tk) + 1, rest |-> sp.rest])

MacroArg(name, tok, omit_comma, is_va_args) ==
  [name |-> name, tok |-> tok, expanded |-> NULL,
   omit_comma |-> omit_comma, is_va_args |-> is_va_args]

ArgsFail(tk, err) == [ok |-> FALSE, err |-> err, tk |-> tk, tok |-> NULL, args |-> <<>>]

\* read_macro_args, the loop over the named parameters; s.params are the
\* parameters still to read and s.args the arguments read
RECURSIVE ReadNamedArgs(_, _)
ReadNamedArgs(s, first) ==
  IF s.params = <<>>
  THEN [ok |-> TRUE, err |-> "", tk |-> s.tk, tok |-> s.tok, args |-> s.args]
  ELSE IF ~first /\ ~equal(s.tk[s.tok], ",")
  THEN ArgsFail(s.tk, "expected ','")
  ELSE Bind(read_macro_arg_one(s.tk, IF first THEN s.tok ELSE s.tk[s.tok].next, FALSE),
            LAMBDA a :
              IF ~a.ok THEN ArgsFail(s.tk, a.err)
              ELSE Bind([tk |-> a.tk, tok |-> a.rest, params |-> Tail(s.params),
                         args |-> Append(s.args,
                                         MacroArg(Head(s.params), a.arg, FALSE, FALSE))],
                        LAMBDA n : ReadNamedArgs(n, FALSE)))

\* arg->omit_comma = equal(start, ")")
OmitComma(tk, start, arg) == equal(tk[start], ")")

\* read_macro_args, the variadic argument and the closing parenthesis; p is
\* the result of the loop over the named parameters
ReadVaArgs(p, params, va_args_name) ==
  IF ~p.ok THEN p
  ELSE IF va_args_name = ""
  THEN IF equal(p.tk[p.tok], ")") THEN p ELSE ArgsFail(p.tk, "expected ')'")
  ELSE
    LET start == p.tok
        comma == ~equal(p.tk[start], ")") /\ params # <<>>
    IN IF comma /\ ~equal(p.tk[start], ",")
       THEN ArgsFail(p.tk, "expected ','")
       ELSE Bind(read_macro_arg_one(p.tk, IF comma THEN p.tk[start].next ELSE start, TRUE),
                 LAMBDA a :
                   IF ~a.ok THEN ArgsFail(p.tk, a.err)
                   ELSE IF ~equal(a.tk[a.rest], ")") THEN ArgsFail(p.tk, "expected ')'")
                   ELSE [ok |-> TRUE, err |-> "", tk |-> a.tk, tok |-> a.rest,
                         args |-> Append(p.args,
                                    MacroArg(va_args_name, a.arg,
                                             OmitComma(p.tk, start, a.arg), TRUE))])

read_macro_args(tk, tok, params, va_args_name) ==
  Bind(ReadNamedArgs([tk |-> tk, tok |-> tok, params |-> params, args |-> <<>>], TRUE),
       LAMBDA p : ReadVaArgs(p, params, va_args_name))

\* find_arg: the index of the first argument the token names, 0 when none
find_arg(args, T) ==
  LET hits == {i \in 1..Len(args) : equal(T, args[i].name)}
  IN IF hits = {} THEN 0 ELSE CHOOSE i \in hits : \A j \in hits : i <= j

(***************************************************************************)
(* The inputs: a set of macro definitions and a token list over the        *)
(* tokens that matter for these definitions.                               *)
(***************************************************************************)
Objlike(name, body) ==
  [name |-> name, is_objlike |-> TRUE, params |-> <<>>, va_args_name |-> "", body |-> body]

Funclike(name, params, va_args_name, body) ==
  [name |-> name, is_objlike |-> FALSE, params |-> params,
   va_args_name |-> va_args_name, body |-> body]

\* the input is the tokens of `pre` followed by a list over `alpha`
Menu(defs, pre, alpha) == [defs |-> defs, pre |-> pre, alpha |-> alpha]

MacroMenus ==
  { Menu(<<Objlike("A", <<"A">>)>>, <<>>, {"A", "1"}),
    Menu(<<Objlike("A", <<"B", "1">>), Objlike("B", <<"A">>)>>, <<>>, {"A", "B"}),
    Menu(<<Objlike("A", <<>>), Objlike("B", <<"A", "B">>)>>, <<>>, {"A", "B", "1"}),
    Menu(<<Funclike("f", <<"x">>, "", <<"x">>), Objlike("A", <<"f">>)>>,
         <<>>, {"A", "f", "(", ")"}),
    Menu(<<Funclike("f", <<"x">>, "", <<"f", "(", "x", ")">>)>>,
         <<"f", "(">>, {"f", "(", ")", "1"}),
    Menu(<<Funclike("f", <<"x">>, "", <<"g", "(", "x", ")">>),
           Funclike("g", <<"x">>, "", <<"f", "(", "x", ")">>)>>,
         <<"f", "(">>, {"f", "g", ")"}),
    Menu(<<Funclike("f", <<"x">>, "", <<"x", "f">>)>>,
         <<"f", "(">>, {"f", "(", ")", "1"}),
    Menu(<<Funclike("f", <<"x">>, "", <<"x">>), Objlike("A", <<"f", "(", "A">>)>>,
         <<>>, {"A", "f", "(", ")"}),
    Menu(<<Funclike("f", <<"x", "y">>, "", <<"y", "x", "y">>), Objlike("A", <<"f">>)>>,
         <<"A", "(">>, {"A", "f", ")", ","}),
    Menu(<<Funclike("f", <<>>, "", <<"A">>), Objlike("A", <<"f", "(", ")">>)>>,
         <<>>, {"A", "f", "(", ")"}),
    Menu(<<Funclike("v", <<"a">>, "__VA_ARGS__", <<"a", ",", "##", "__VA_ARGS__">>)>>,
         <<"v", "(">>, {")", ",", "1"}),
    Menu(<<Funclike("v", <<>>, "__VA_ARGS__", <<"2", ",", "##", "__VA_ARGS__">>),
           Objlike("E", <<>>)>>,
         <<"v", "(">>, {")", ",", "E"}),
    Menu(<<Funclike("v", <<"a">>, "r", <<"a", ",", "##", "r">>), Objlike("E", <<>>)>>,
         <<"v", "(">>, {")", ",", "E"}) }

\* the replacement lists tokenized after the input: [tk, mac]
RECURSIVE AddMacros(_, _)
AddMacros(tk, defs) ==
  IF defs = <<>> THEN [tk |-> tk, mac |-> <<>>]
  ELSE LET d == Head(defs)
           r == AddMacros(TokenList(tk, d.body), Tail(defs))
       IN [tk |-> r.tk,
           mac |-> (d.name :> [is_objlike |-> d.is_objlike, params |-> d.params,
                               va_args_name |-> d.va_args_name, body |-> Len(tk) + 1])
                   @@ r.mac]

LoopFrame(kind, tok, start_m, argi) ==
  [kind |-> kind, tok |-> tok, out |-> <<>>, start_m |-> start_m, argi |-> argi]

ExpandInit ==
  /\ \E menu \in MacroMenus : \E input \in SeqsUpTo(menu.alpha, MaxInput) :
       LET h == AddMacros(TokenList(<<>>, menu.pre \o input), menu.defs)
       IN /\ ex_tk = h.tk
          /\ ex_mac = h.mac
          /\ ex_lock = [m \in DOMAIN h.mac |-> [is_locked |-> FALSE, stop_tok |-> NULL]]
  /\ ex_pc = "run"
  /\ ex_err = ""
  /\ ex_locked = <<>>
  /\ ex_stack = <<LoopFrame("preprocess2", 1, "", 0)>>
  /\ ex_result = <<>>
  /\ ex_nexp = 0
  /\ ex_last = <<>>
  /\ ex_scan = {}
  /\ LayoutIdle /\ DirIdle /\ IdentIdle /\ ConvIdle /\ CallIdle /\ FrameIdle /\ VlaIdle /\ EvalIdle /\ EnumIdle /\ GvarIdle /\ UnitIdle /\ DeclIdle

Top == Head(ex_stack)
Cur == ex_tk[Top.tok]
Locks == LockState(ex_lock, ex_locked)

\* locked_macros as a pointer: the Macro on top of the list, "" for NULL
LockTop(locked) == IF locked = <<>> THEN "" ELSE Head(locked)

\* the loop of preprocess2, of expand_arg or of read_const_expr stands at a
\* token
InLoop ==
  /\ ex_pc = "run"
  /\ Top.kind \in {"preprocess2", "expand_arg", "read_const_expr"}
  /\ Cur.k # "eof"

\* expand_macro returns false for the token
NotExpanded(T) ==
  IF T.dx THEN TRUE
  ELSE IF ~find_macro(ex_mac, T) THEN TRUE
  ELSE IF IsLocked(ex_lock, T.t) THEN TRUE
  ELSE ~ex_mac[T.t].is_objlike /\ ~equal(ex_tk[T.next], "(")

SetLocks(lk) == ex_lock' = lk.lock /\ ex_locked' = lk.locked

SetTop(frame) == ex_stack' = <<frame>> \o Tail(ex_stack)

ExpandFatal(msg) ==
  /\ ex_pc' = "error"
  /\ ex_err' = msg
  /\ UNCHANGED <<ex_tk, ex_mac, ex_lock, ex_locked, ex_stack, ex_result, ex_nexp,
                 ex_last, ex_scan>>

\* the token is not a macro to expand: it goes to the output (preprocess2)
\* or a copy of it does (expand_arg), and the loop steps to the next token
EmitToken ==
  /\ InLoop
  /\ Top.kind # "read_const_expr"
  /\ NotExpanded(Cur)
  /\ LET tok == Top.tok
         mark == ~Cur.dx /\ find_macro(ex_mac, Cur) /\ IsLocked(ex_lock, Cur.t)
         tk1 == IF mark THEN [ex_tk EXCEPT ![tok].dx = TRUE] ELSE ex_tk
     IN /\ ex_tk' = tk1
        /\ SetTop([Top EXCEPT !.tok = Cur.next, !.out = @ \o <<tk1[tok]>>])
        /\ SetLocks(pop_macro_lock(Locks, Cur.next))
        /\ ex_scan' = {Cur.next}
  /\ UNCHANGED <<ex_pc, ex_err, ex_mac, ex_result, ex_nexp, ex_last>>
  /\ OnlyExpand

\* expand_macro on an object-like macro, then the loop's pop_macro_lock
ExpandObjlike ==
  /\ InLoop
  /\ ~NotExpanded(Cur)
  /\ ex_mac[Cur.t].is_objlike
  /\ Len(ex_tk) < MaxTokens
  /\ LET m == Cur.t
         stop_tok == Cur.next
         body == ListIds(ex_tk, ex_mac[m].body)
         recs == [i \in 1..Len(body) |->
                    [ex_tk[body[i]] EXCEPT !.anc = @ \cup {m} \cup Cur.anc]]
         rest == IF body = <<>> THEN stop_tok ELSE Len(ex_tk) + 1
         lk == IF rest # stop_tok THEN push_macro_lock(Locks, m, stop_tok) ELSE Locks
     IN /\ ex_tk' = Alloc(ex_tk, recs, stop_tok)
        /\ SetTop([Top EXCEPT !.tok = rest])
        /\ SetLocks(pop_macro_lock(lk, rest))
        /\ ex_scan' = {rest}
        /\ ex_last' = [m |-> m, tok |-> Top.tok]
  /\ ex_nexp' = ex_nexp + 1
  /\ UNCHANGED <<ex_pc, ex_err, ex_mac, ex_result>>
  /\ OnlyExpand

SubstFrame(m, orig, stop_tok, body, args) ==
  [kind |-> "subst", m |-> m, orig |-> orig, stop_tok |-> stop_tok, tok |-> body,
   out |-> <<>>, args |-> args]

\* expand_macro on a function-like macro followed by "(": the argument
\* list is prepared and read, and subst starts on the replacement list
ExpandFunclike ==
  /\ InLoop
  /\ ~NotExpanded(Cur)
  /\ ~ex_mac[Cur.t].is_objlike
  /\ Len(ex_tk) < MaxTokens
  /\ \E p \in {prepare_funclike_args(ex_mac, ex_tk, Locks, Cur.next)} :
       IF ~p.ok THEN ExpandFatal("unterminated list")
       ELSE \E a \in {read_macro_args(p.tk, ex_tk[Cur.next].next, ex_mac[Cur.t].params,
                                      ex_mac[Cur.t].va_args_name)} :
              IF ~a.ok THEN ExpandFatal(a.err)
              ELSE /\ ex_tk' = a.tk
                   /\ SetLocks(p.lk)
                   /\ ex_scan' = p.scan
                   /\ ex_stack' = <<SubstFrame(Cur.t, Top.tok, p.stop, ex_mac[Cur.t].body,
                                               a.args)>> \o ex_stack
                   /\ ex_nexp' = ex_nexp + 1
                   /\ ex_last' = [m |-> Cur.t, tok |-> Top.tok]
                   /\ UNCHANGED <<ex_pc, ex_err, ex_result>>
  /\ UNCHANGED ex_mac
  /\ OnlyExpand

InSubst == ex_pc = "run" /\ Top.kind = "subst"

\* subst stands at `,` `##` <variadic parameter>: the index of the
\* variadic argument, 0 when the cursor is not at this form
CommaPasteArg(frame) ==
  LET T == ex_tk[frame.tok]
  IN IF equal(T, ",") /\ equal(ex_tk[T.next], "##")
     THEN LET ai == find_arg(frame.args, ex_tk[ex_tk[T.next].next])
          IN IF ai # 0 /\ frame.args[ai].is_va_args THEN ai ELSE 0
     ELSE 0

\* subst, [GNU] `,##__VA_ARGS__`
SubstCommaPaste ==
  /\ InSubst
  /\ CommaPasteArg(Top) # 0
  /\ LET arg == Top.args[CommaPasteArg(Top)]
     IN IF arg.omit_comma
        THEN SetTop([Top EXCEPT !.tok = ex_tk[ex_tk[Cur.next].next].next])
        ELSE SetTop([Top EXCEPT !.tok = ex_tk[Cur.next].next, !.out = @ \o <<Cur>>])
  /\ UNCHANGED <<ex_pc, ex_err, ex_tk, ex_mac, ex_lock, ex_locked, ex_result, ex_nexp,
                 ex_last, ex_scan>>
  /\ OnlyExpand

\* subst at a parameter whose argument is not expanded yet: expand_arg
\* starts its loop over the argument's tokens
ExpandArgBegin ==
  /\ InSubst
  /\ Cur.k # "eof"
  /\ CommaPasteArg(Top) = 0
  /\ find_arg(Top.args, Cur) # 0
  /\ Top.args[find_arg(Top.args, Cur)].expanded = NULL
  /\ LET ai == find_arg(Top.args, Cur)
     IN ex_stack' = <<LoopFrame("expand_arg", Top.args[ai].tok, LockTop(ex_locked), ai)>>
                    \o ex_stack
  /\ UNCHANGED <<ex_pc, ex_err, ex_tk, ex_mac, ex_lock, ex_locked, ex_result, ex_nexp,
                 ex_last, ex_scan>>
  /\ OnlyExpand

\* expand_arg at the end of the argument: the copies are closed by new_eof
\* and kept in arg->expanded
ExpandArgEnd ==
  /\ ex_pc = "run"
  /\ Top.kind = "expand_arg"
  /\ Cur.k = "eof"
  /\ ex_tk' = Alloc(ex_tk, Top.out \o <<new_eof(Cur)>>, NULL)
  /\ IF Top.start_m # LockTop(ex_locked)
     THEN /\ ex_pc' = "internal_error"
          /\ UNCHANGED ex_stack
     ELSE /\ ex_stack' = <<[ex_stack[2] EXCEPT !.args[Top.argi].expanded = Len(ex_tk) + 1]>>
                         \o Tail(Tail(ex_stack))
          /\ UNCHANGED ex_pc
  /\ UNCHANGED <<ex_err, ex_mac, ex_lock, ex_locked, ex_result, ex_nexp, ex_last, ex_scan>>
  /\ OnlyExpand

\* subst at a parameter whose argument is expanded: a placemarker for an
\* empty argument, copies of the argument's tokens otherwise
SubstParam ==
  /\ InSubst
  /\ Cur.k # "eof"
  /\ CommaPasteArg(Top) = 0
  /\ find_arg(Top.args, Cur) # 0
  /\ Top.args[find_arg(Top.args, Cur)].expanded # NULL
  /\ LET t == Top.args[find_arg(Top.args, Cur)].expanded
         ids == ListIds(ex_tk, t)
         recs == IF ex_tk[t].k = "eof" THEN <<new_pmark(ex_tk[t])>>
                 ELSE [i \in 1..Len(ids) |-> ex_tk[ids[i]]]
     IN SetTop([Top EXCEPT !.tok = Cur.next, !.out = @ \o recs])
  /\ UNCHANGED <<ex_pc, ex_err, ex_tk, ex_mac, ex_lock, ex_locked, ex_result, ex_nexp,
                 ex_last, ex_scan>>
  /\ OnlyExpand

\* subst at a non-parameter token
SubstCopy ==
  /\ InSubst
  /\ Cur.k # "eof"
  /\ CommaPasteArg(Top) = 0
  /\ find_arg(Top.args, Cur) = 0
  /\ SetTop([Top EXCEPT !.tok = Cur.next, !.out = @ \o <<Cur>>])
  /\ UNCHANGED <<ex_pc, ex_err, ex_tk, ex_mac, ex_lock, ex_locked, ex_result, ex_nexp,
                 ex_last, ex_scan>>
  /\ OnlyExpand

\* subst at the end of the replacement list: insert_funclike links the
\* result before stop_tok, expand_macro locks the macro, and the calling
\* loop runs its pop_macro_lock
InsertFunclike ==
  /\ InSubst
  /\ Cur.k = "eof"
  /\ LET m == Top.m
         stop_tok == Top.stop_tok
         kept == SelectSeq(Top.out, LAMBDA T : T.k # "pmark")
         recs == [i \in 1..Len(kept) |->
                    [kept[i] EXCEPT !.anc = @ \cup {m} \cup ex_tk[Top.orig].anc]]
         rest == IF kept = <<>> THEN stop_tok ELSE Len(ex_tk) + 1
         lk == IF rest # stop_tok THEN push_macro_lock(Locks, m, stop_tok) ELSE Locks
     IN /\ ex_tk' = Alloc(ex_tk, recs, stop_tok)
        /\ ex_stack' = <<[ex_stack[2] EXCEPT !.tok = rest]>> \o Tail(Tail(ex_stack))
        /\ SetLocks(pop_macro_lock(lk, rest))
        /\ ex_scan' = {rest}
  /\ UNCHANGED <<ex_pc, ex_err, ex_mac, ex_result, ex_nexp, ex_last>>
  /\ OnlyExpand

\* preprocess2 at TK_EOF
Preprocess2End ==
  /\ ex_pc = "run"
  /\ Top.kind = "preprocess2"
  /\ Cur.k = "eof"
  /\ IF Top.start_m # LockTop(ex_locked)
     THEN ex_pc' = "internal_error" /\ UNCHANGED ex_result
     ELSE ex_pc' = "done" /\ ex_result' = Top.out
  /\ UNCHANGED <<ex_err, ex_tk, ex_mac, ex_lock, ex_locked, ex_stack, ex_nexp, ex_last,
                 ex_scan>>
  /\ OnlyExpand

NextExpand ==
  \/ EmitToken
  \/ ExpandObjlike
  \/ ExpandFunclike
  \/ SubstCommaPaste
  \/ ExpandArgBegin
  \/ ExpandArgEnd
  \/ SubstParam
  \/ SubstCopy
  \/ InsertFunclike
  \/ Preprocess2End

SpecExpand == ExpandInit /\ [][NextExpand]_vars

SpecExpandFair == SpecExpand /\ WF_vars(NextExpand)

ExpandOutput == TextsOf(ex_result)

(***************************************************************************)
(* Claims about macro expansion.                                           *)
(***************************************************************************)

\* the step expands a macro
Expands == ex_nexp' # ex_nexp

C6_CommaDroppedWhenEmpty ==
  [][ (InSubst /\ CommaPasteArg(Top) # 0) =>
        LET arg == Top.args[CommaPasteArg(Top)]
        IN IF ex_tk[arg.tok].k = "eof"
           THEN Head(ex_stack').out = Top.out
           ELSE Head(ex_stack').out = Top.out \o <<Cur>>
    ]_vars

(***************************************************************************)
(* preprocess on a token list that holds no directive and names no macro:  *)
(* the pass of preprocess2 and the post-pass preprocess3                   *)
(* (src/preprocess.c).  A token list is a sequence here and its TK_EOF is  *)
(* the end of the sequence.  A token is a record                           *)
(*   [t: source text, k: kind, sk: string kind, str: contents, attr]       *)
(* where attr is the attr_next list.  Attribute lists hold no              *)
(* parenthesised arguments.  Widening a narrow literal keeps its contents. *)
(***************************************************************************)
MaxItems == 3        \* the longest input, in items of IdentItems

PTok(t, k) == [t |-> t, k |-> k, sk |-> "", str |-> <<>>, attr |-> <<>>]

StrTok(t, sk, str) == [t |-> t, k |-> "str", sk |-> sk, str |-> str, attr |-> <<>>]

IdentItems ==
  { <<PTok("x", "ident")>>,
    <<PTok("int", "ident")>>,
    <<PTok("1", "num")>>,
    <<StrTok("\"a\"", "none", <<"a">>)>>,
    <<StrTok("L\"b\"", "L", <<"b">>)>>,
    <<StrTok("u\"c\"", "u", <<"c">>)>>,
    <<PTok("__attribute__", "ident"), PTok("(", "punct"), PTok("(", "punct"),
      PTok("packed", "ident"), PTok(")", "punct"), PTok(")", "punct")>>,
    <<PTok("__attribute", "ident"), PTok("(", "punct"), PTok("(", "punct"),
      PTok("unused", "ident"), PTok(",", "punct"), PTok("__packed__", "ident"),
      PTok(")", "punct"), PTok(")", "punct")>>,
    <<PTok("__attribute__", "ident")>> }

RECURSIVE Flatten(_)
Flatten(items) == IF items = <<>> THEN <<>> ELSE Head(items) \o Flatten(Tail(items))

\* is_keyword, for the identifiers of IdentItems
is_keyword(T) == T.t \in {"int"}

\* is_supported_attr
is_supported_attr(T) == equal(T, "packed") \/ equal(T, "__packed__")

\* split_paren: the number of tokens before the closing parenthesis of
\* level 0, -1 when the list ends first
RECURSIVE SplitAt(_, _, _)
SplitAt(toks, i, level) ==
  IF i > Len(toks) THEN -1
  ELSE IF level = 0 /\ equal(toks[i], ")") THEN i - 1
  ELSE SplitAt(toks, i + 1,
               IF equal(toks[i], "(") THEN level + 1
               ELSE IF equal(toks[i], ")") THEN level - 1 ELSE level)

\* filter_attr on the list from its i-th token on: [ok, attrs]
RECURSIVE filter_attr(_, _, _)
filter_attr(list, i, attrs) ==
  IF i > Len(list) THEN [ok |-> TRUE, err |-> "", attrs |-> attrs]
  ELSE IF list[i].k # "ident"
  THEN [ok |-> FALSE, err |-> "expected attribute name", attrs |-> attrs]
  ELSE LET attrs1 == IF is_supported_attr(list[i]) THEN Append(attrs, list[i].t) ELSE attrs
       IN IF i = Len(list) THEN [ok |-> TRUE, err |-> "", attrs |-> attrs1]
          ELSE IF ~equal(list[i + 1], ",")
          THEN [ok |-> FALSE, err |-> "expected ','", attrs |-> attrs1]
          ELSE IF i + 1 = Len(list)
          THEN [ok |-> FALSE, err |-> "expected attribute name", attrs |-> attrs1]
          ELSE filter_attr(list, i + 2, attrs1)

\* the run of string literals a list starts with
RECURSIVE StrRun(_)
StrRun(toks) ==
  IF toks # <<>> /\ Head(toks).k = "str" THEN <<Head(toks)>> \o StrRun(Tail(toks))
  ELSE <<>>

\* join_adjacent_string_literals, the kind of the result: "error" for an
\* unsupported mix
RECURSIVE JoinKind(_, _)
JoinKind(kind, run) ==
  IF run = <<>> THEN kind
  ELSE IF kind = "none" THEN JoinKind(Head(run).sk, Tail(run))
  ELSE IF Head(run).sk # "none" /\ kind # Head(run).sk THEN "error"
  ELSE JoinKind(kind, Tail(run))

RECURSIVE JoinStr(_)
JoinStr(run) == IF run = <<>> THEN <<>> ELSE Head(run).str \o JoinStr(Tail(run))

ReturnsBeforePostPassNever(E) == FALSE

\* preprocess: if (opt_E) return tok;
ReturnsBeforePostPass(E) == E

IdentInit ==
  /\ \E items \in SeqsUpTo(IdentItems, MaxItems) :
       /\ id_src = Flatten(items)
       /\ id_tok = Flatten(items)
  /\ id_E \in BOOLEAN
  /\ id_macros = {"M"}
  /\ id_pc = "preprocess2"
  /\ id_err = ""
  /\ id_out = <<>>
  /\ id_attr = <<>>
  /\ LayoutIdle /\ DirIdle /\ ExpandIdle /\ ConvIdle /\ CallIdle /\ FrameIdle /\ VlaIdle /\ EvalIdle /\ EnumIdle /\ GvarIdle /\ UnitIdle /\ DeclIdle

IdentFatal(msg) ==
  /\ id_pc' = "error"
  /\ id_err' = msg
  /\ UNCHANGED <<id_tok, id_out, id_attr>>

\* preprocess2 at a token that is neither a macro nor the "#" of a directive
Pp2Token ==
  /\ id_pc = "preprocess2"
  /\ id_tok # <<>>
  /\ ~(Head(id_tok).k = "ident" /\ Head(id_tok).t \in id_macros)
  /\ ~equal(Head(id_tok), "#")
  /\ id_out' = Append(id_out, Head(id_tok))
  /\ id_tok' = Tail(id_tok)
  /\ UNCHANGED <<id_pc, id_err, id_E, id_macros, id_src, id_attr>>
  /\ OnlyIdent

\* preprocess2 at TK_EOF, and preprocess up to the call of preprocess3
Pp2Return ==
  /\ id_pc = "preprocess2"
  /\ id_tok = <<>>
  /\ IF ReturnsBeforePostPass(id_E)
     THEN id_pc' = "done" /\ UNCHANGED <<id_tok, id_out>>
     ELSE id_pc' = "preprocess3" /\ id_tok' = id_out /\ id_out' = <<>>
  /\ UNCHANGED <<id_err, id_E, id_macros, id_src, id_attr>>
  /\ OnlyIdent

AtAttribute ==
  /\ id_pc = "preprocess3"
  /\ id_tok # <<>>
  /\ equal(Head(id_tok), "__attribute__") \/ equal(Head(id_tok), "__attribute")

\* preprocess3 at __attribute__: the cluster leaves the list and its
\* supported attributes wait for the next token
Pp3Attribute ==
  /\ AtAttribute
  /\ IF Len(id_tok) < 3 \/ ~equal(id_tok[2], "(") \/ ~equal(id_tok[3], "(")
     THEN IdentFatal("expected '('")
     ELSE LET rest == SubSeq(id_tok, 4, Len(id_tok))
              n == SplitAt(rest, 1, 0)
              f == filter_attr(SubSeq(rest, 1, n), 1, id_attr)
          IN IF n = -1 THEN IdentFatal("unterminated list")
             ELSE IF Len(rest) < n + 2 \/ ~equal(rest[n + 2], ")")
             THEN IdentFatal("expected ')'")
             ELSE IF ~f.ok THEN IdentFatal(f.err)
             ELSE /\ id_tok' = SubSeq(rest, n + 3, Len(rest))
                  /\ id_attr' = f.attrs
                  /\ UNCHANGED <<id_pc, id_err, id_out>>
  /\ UNCHANGED <<id_E, id_macros, id_src>>
  /\ OnlyIdent

\* preprocess3 at any other token
Pp3Token ==
  /\ id_pc = "preprocess3"
  /\ id_tok # <<>>
  /\ ~AtAttribute
  /\ LET T == Head(id_tok)
         T1 == IF T.k = "ident" /\ is_keyword(T) THEN [T EXCEPT !.k = "keyword"] ELSE T
         run == StrRun(id_tok)
         kind == JoinKind(T.sk, Tail(run))
         T2 == IF Len(run) >= 2 THEN [T1 EXCEPT !.sk = kind, !.str = JoinStr(run)] ELSE T1
     IN IF Len(run) >= 2 /\ kind = "error"
        THEN IdentFatal("unsupported non-standard concatenation of string literals")
        ELSE /\ id_out' = Append(id_out, [T2 EXCEPT !.attr = id_attr])
             /\ id_tok' = IF Len(run) >= 2 THEN SubSeq(id_tok, Len(run) + 1, Len(id_tok))
                          ELSE Tail(id_tok)
             /\ id_attr' = <<>>
             /\ UNCHANGED <<id_pc, id_err>>
  /\ UNCHANGED <<id_E, id_macros, id_src>>
  /\ OnlyIdent

\* preprocess3 at TK_EOF
Pp3Return ==
  /\ id_pc = "preprocess3"
  /\ id_tok = <<>>
  /\ id_pc' = "done"
  /\ UNCHANGED <<id_err, id_E, id_macros, id_src, id_tok, id_out, id_attr>>
  /\ OnlyIdent

NextIdent ==
  \/ Pp2Token
  \/ Pp2Return
  \/ Pp3Attribute
  \/ Pp3Token
  \/ Pp3Return

SpecIdent == IdentInit /\ [][NextIdent]_vars

(***************************************************************************)
(* Claims about preprocess on a list without directives and macros.        *)
(***************************************************************************)

\* the same tokens in the same order: none added, removed or merged
SameTokens(a, b) ==
  /\ Len(a) = Len(b)
  /\ \A i \in 1..Len(a) : a[i].t = b[i].t /\ a[i].sk = b[i].sk /\ a[i].str = b[i].str

NoAttribute(toks) ==
  \A i \in 1..Len(toks) : ~equal(toks[i], "__attribute__") /\ ~equal(toks[i], "__attribute")

NoAdjacentStrings(toks) ==
  \A i \in 1..(Len(toks) - 1) : ~(toks[i].k = "str" /\ toks[i + 1].k = "str")

\* C7 as stated: for a list without directives and macro names, preprocess
\* returns the same sequence of tokens.
C7_Identity == id_pc = "done" => SameTokens(id_out, id_src)

\* C7, amended: preprocess returns the same sequence of tokens under -E,
\* and without -E when the list holds no __attribute__ and no two adjacent
\* string literals; the post-pass then only turns the kind of an identifier
\* that is a keyword into keyword.  Only the post-pass can stop with an error.
C7_IdentityUpToPostPass ==
  /\ id_pc = "done" /\ (id_E \/ (NoAttribute(id_src) /\ NoAdjacentStrings(id_src)))
       => /\ SameTokens(id_out, id_src)
          /\ \A i \in 1..Len(id_out) :
               /\ id_out[i].attr = <<>>
               /\ id_out[i].k = IF ~id_E /\ id_src[i].k = "ident" /\ is_keyword(id_src[i])
                                THEN "keyword" ELSE id_src[i].k
  /\ id_pc = "error" => ~id_E /\ ~(NoAttribute(id_src) /\ NoAdjacentStrings(id_src))

\* the post-pass ran over a list with a keyword and a string literal
C7_Witness ==
  /\ id_pc = "done"
  /\ ~id_E
  /\ NoAttribute(id_src) /\ NoAdjacentStrings(id_src)
  /\ \E i \in 1..Len(id_src) : id_src[i].k = "str"
  /\ \E i \in 1..Len(id_src) : is_keyword(id_src[i])

(***************************************************************************)
(* The usual arithmetic conversion (src/type.c): int_rank, int_promotion   *)
(* and get_common_type.  A type is [kind, size, is_unsigned]; an operand   *)
(* is its type and, when it is a bit-field member, the member's bit_width  *)
(* (struct_members accepts every width that is not negative).              *)
(***************************************************************************)
MaxBitWidth == 40    \* the widest bit-field among the operands

Ty(kind, size, is_unsigned) == [kind |-> kind, size |-> size, is_unsigned |-> is_unsigned]

ty_bool == Ty("TY_BOOL", 1, TRUE)
ty_pchar == Ty("TY_PCHAR", 1, FALSE)
ty_char == Ty("TY_CHAR", 1, FALSE)
ty_short == Ty("TY_SHORT", 2, FALSE)
ty_int == Ty("TY_INT", 4, FALSE)
ty_long == Ty("TY_LONG", 8, FALSE)
ty_llong == Ty("TY_LONGLONG", 8, FALSE)
ty_uchar == Ty("TY_CHAR", 1, TRUE)
ty_ushort == Ty("TY_SHORT", 2, TRUE)
ty_uint == Ty("TY_INT", 4, TRUE)
ty_ulong == Ty("TY_LONG", 8, TRUE)
ty_ullong == Ty("TY_LONGLONG", 8, TRUE)
ty_float == Ty("TY_FLOAT", 4, FALSE)
ty_double == Ty("TY_DOUBLE", 8, FALSE)
ty_ldouble == Ty("TY_LDOUBLE", 16, FALSE)

\* the value of a call that ended in internal_error()
InternalError == Ty("internal_error", 0, FALSE)

IntegerTypes ==
  {ty_bool, ty_pchar, ty_char, ty_short, ty_int, ty_long, ty_llong,
   ty_uchar, ty_ushort, ty_uint, ty_ulong, ty_ullong}

FlonumTypes == {ty_float, ty_double, ty_ldouble}

is_integer(ty) ==
  ty.kind \in {"TY_BOOL", "TY_PCHAR", "TY_CHAR", "TY_SHORT", "TY_INT", "TY_LONG",
               "TY_LONGLONG"}

is_flonum(ty) == ty.kind \in {"TY_FLOAT", "TY_DOUBLE", "TY_LDOUBLE"}

is_numeric(ty) == is_integer(ty) \/ is_flonum(ty)

\* int_rank: -1 stands for the internal_error() after the switch
int_rank(t) ==
  IF t.kind \in {"TY_BOOL", "TY_CHAR", "TY_SHORT"} THEN 0
  ELSE IF t.kind = "TY_INT" THEN 1
  ELSE IF t.kind = "TY_LONG" THEN 2
  ELSE IF t.kind = "TY_LONGLONG" THEN 3
  ELSE -1

Operand(ty, is_bitfield, bit_width) ==
  [ty |-> ty, is_bitfield |-> is_bitfield, bit_width |-> bit_width]

BitWidths == {1, 8, 31, 32, 33, MaxBitWidth}

\* the operands: every integer and floating type, and bit-field members of
\* every integer type
Operands ==
  {Operand(ty, FALSE, 0) : ty \in IntegerTypes \cup FlonumTypes}
  \cup {Operand(ty, TRUE, w) : ty \in IntegerTypes, w \in BitWidths}

\* int_promotion: the type of the operand afterwards
int_promotion(op) ==
  LET ty == op.ty
      int_width == ty_int.size * 8
  IN IF op.is_bitfield
     THEN IF op.bit_width = int_width /\ ty.is_unsigned THEN ty_uint
          ELSE IF op.bit_width <= int_width THEN ty_int
          ELSE ty
     ELSE IF ty.size < ty_int.size THEN ty_int
     ELSE IF ty.size = ty_int.size /\ int_rank(ty) = -1 THEN InternalError
     ELSE IF ty.size = ty_int.size /\ int_rank(ty) < int_rank(ty_int)
     THEN IF ty.is_unsigned THEN ty_uint ELSE ty_int
     ELSE ty

\* get_common_type, the switch on ranked_ty->kind
UnsignedOfRanked(ranked_ty) ==
  IF ranked_ty.kind = "TY_INT" THEN ty_uint
  ELSE IF ranked_ty.kind = "TY_LONG" THEN ty_ulong
  ELSE IF ranked_ty.kind = "TY_LONGLONG" THEN ty_ullong
  ELSE InternalError

get_common_type(lhs, rhs) ==
  IF lhs.ty.kind = "TY_LDOUBLE" \/ rhs.ty.kind = "TY_LDOUBLE" THEN ty_ldouble
  ELSE IF lhs.ty.kind = "TY_DOUBLE" \/ rhs.ty.kind = "TY_DOUBLE" THEN ty_double
  ELSE IF lhs.ty.kind = "TY_FLOAT" \/ rhs.ty.kind = "TY_FLOAT" THEN ty_float
  ELSE
    LET ty1 == int_promotion(lhs)
        ty2 == int_promotion(rhs)
    IN IF InternalError \in {ty1, ty2} THEN InternalError
       ELSE IF ty1.size # ty2.size THEN (IF ty1.size < ty2.size THEN ty2 ELSE ty1)
       ELSE IF int_rank(ty1) = -1 \/ int_rank(ty2) = -1 THEN InternalError
       ELSE LET ranked_ty == IF int_rank(ty1) > int_rank(ty2) THEN ty1 ELSE ty2
            IN IF ty1.is_unsigned = ty2.is_unsigned THEN ranked_ty
               ELSE UnsignedOfRanked(ranked_ty)

ConvInit ==
  /\ cv_pc = "operands"
  /\ cv_lhs \in Operands
  /\ cv_rhs \in Operands
  /\ cv_ty = <<>>
  /\ LayoutIdle /\ DirIdle /\ ExpandIdle /\ IdentIdle /\ CallIdle /\ FrameIdle /\ VlaIdle /\ EvalIdle /\ EnumIdle /\ GvarIdle /\ UnitIdle /\ DeclIdle

\* usual_arith_conv calls get_common_type on the two operands
GetCommonType ==
  /\ cv_pc = "operands"
  /\ cv_pc' = "done"
  /\ cv_ty' = get_common_type(cv_lhs, cv_rhs)
  /\ UNCHANGED <<cv_lhs, cv_rhs>>
  /\ OnlyConv

NextConv == GetCommonType

SpecConv == ConvInit /\ [][NextConv]_vars

(***************************************************************************)
(* Claims about the usual arithmetic conversion.                           *)
(***************************************************************************)

\* the conversion rank of the C standard, for the comparison of two types
ConvRank(ty) ==
  IF ty.kind = "TY_LONGLONG" THEN 3
  ELSE IF ty.kind = "TY_LONG" THEN 2
  ELSE IF ty.kind = "TY_INT" THEN 1
  ELSE 0

\* integer promotion as the claim states it
Promoted(op) ==
  IF op.is_bitfield /\ op.bit_width <= 32
  THEN IF op.ty.is_unsigned /\ op.bit_width = 32 THEN ty_uint ELSE ty_int
  ELSE IF ~op.is_bitfield /\ ConvRank(op.ty) < 1 THEN ty_int
  ELSE op.ty

\* the common type as the claim states it
CommonOf(lhs, rhs) ==
  LET a == Promoted(lhs)
      b == Promoted(rhs)
      higher == IF ConvRank(a) > ConvRank(b) THEN a ELSE b
  IN IF a.size # b.size THEN (IF a.size > b.size THEN a ELSE b)
     ELSE IF a.is_unsigned = b.is_unsigned THEN higher
     ELSE [higher EXCEPT !.is_unsigned = TRUE]

\* C11: for every pair of integer operands get_common_type returns the
\* common type of the promoted operands (the higher-ranked type for equal
\* size and signedness, its unsigned variant for equal size and different
\* signedness, the wider type otherwise), returns the same type for the
\* operands in the other order, and does not end in internal_error().
C11_CommonType ==
  (cv_pc = "done" /\ is_integer(cv_lhs.ty) /\ is_integer(cv_rhs.ty)) =>
     /\ cv_ty # InternalError
     /\ cv_ty = CommonOf(cv_lhs, cv_rhs)
     /\ get_common_type(cv_rhs, cv_lhs) = cv_ty

(***************************************************************************)
(*                     ARGUMENT PASSING (codegen.c)                        *)
(***************************************************************************)

GP_MAX == 6
FP_MAX == 8

\* Bound: the number of arguments of the modelled call that follow the
\* first ones, which come from FirstArgs.
MaxArgs == 2

MIN(a, b) == IF a < b THEN a ELSE b

\* A type as codegen.c reads it: kind, size, align, the members of a struct
\* or union with their offsets, the element type and length of an array.
Scalar(t) ==
  [kind |-> t.kind, size |-> t.size, align |-> t.size,
   members |-> <<>>, base |-> <<>>, array_len |-> 0]

Member(ty, offset) == [ty |-> ty, offset |-> offset]

struct_type(kind, members, size, align) ==
  [kind |-> kind, size |-> size, align |-> align,
   members |-> members, base |-> <<>>, array_len |-> 0]

array_of(base, len) ==
  [kind |-> "TY_ARRAY", size |-> base.size * len, align |-> base.align,
   members |-> <<>>, base |-> <<base>>, array_len |-> len]

t_char    == Scalar(ty_char)
t_int     == Scalar(ty_int)
t_long    == Scalar(ty_long)
t_float   == Scalar(ty_float)
t_double  == Scalar(ty_double)
t_ldouble == Scalar(ty_ldouble)

\* The structs of test/function2.c ...
G  == struct_type("TY_STRUCT", <<Member(t_char, 0)>>, 1, 1)
F  == struct_type("TY_STRUCT", <<Member(t_float, 0)>>, 4, 4)
A  == struct_type("TY_STRUCT", <<Member(t_char, 0), Member(t_float, 4)>>, 8, 4)
DI == struct_type("TY_STRUCT", <<Member(t_long, 0), Member(t_long, 8)>>, 16, 8)
DD == struct_type("TY_STRUCT", <<Member(t_double, 0), Member(t_double, 8)>>, 16, 8)
DM == struct_type("TY_STRUCT", <<Member(t_long, 0), Member(t_double, 8)>>, 16, 8)
\* ... and further ones: struct {double d; int i;}, struct {float a[3];},
\* struct {struct {float x, y;} p; double d;}, union {float f; int i;},
\* struct {long double x;}, struct {long a[3];},
\* packed struct {float f; long x; float g;}.
MD   == struct_type("TY_STRUCT", <<Member(t_double, 0), Member(t_int, 8)>>, 16, 8)
FA3  == struct_type("TY_STRUCT", <<Member(array_of(t_float, 3), 0)>>, 12, 4)
FF   == struct_type("TY_STRUCT", <<Member(t_float, 0), Member(t_float, 4)>>, 8, 4)
NF   == struct_type("TY_STRUCT", <<Member(FF, 0), Member(t_double, 8)>>, 16, 8)
UFI  == struct_type("TY_UNION", <<Member(t_float, 0), Member(t_int, 0)>>, 4, 4)
LD   == struct_type("TY_STRUCT", <<Member(t_ldouble, 0)>>, 16, 16)
Big  == struct_type("TY_STRUCT", <<Member(array_of(t_long, 3), 0)>>, 24, 8)
PK   == struct_type("TY_STRUCT",
                    <<Member(t_float, 0), Member(t_long, 4), Member(t_float, 12)>>, 16, 1)

StructTypes == {G, F, A, DI, DD, DM, MD, FA3, NF, UFI, LD, Big, PK}
ParamTypes  == {t_int, t_float, t_double, t_ldouble} \cup StructTypes
\* funcall (parse.c) casts a float argument of "..." to double.
VarArgTypes == ParamTypes \ {t_float}
ReturnTypes == {MD, Big}

IsAggregate(ty) == ty.kind \in {"TY_STRUCT", "TY_UNION"}

\* codegen.c: has_flonum
RECURSIVE has_flonum(_, _, _, _)
has_flonum(ty, lo, hi, offset) ==
  IF IsAggregate(ty) THEN
    \A i \in 1..Len(ty.members) :
       has_flonum(ty.members[i].ty, lo, hi, offset + ty.members[i].offset)
  ELSE IF ty.kind = "TY_ARRAY" THEN
    \A i \in 0..(ty.array_len - 1) :
       has_flonum(ty.base[1], lo, hi, offset + ty.base[1].size * i)
  ELSE
    offset < lo \/ hi <= offset \/ ty.kind \in {"TY_FLOAT", "TY_DOUBLE"}

has_flonum1(ty) == has_flonum(ty, 0, 8, 0)
has_flonum2(ty) == has_flonum(ty, 8, 16, 0)

B2I(b) == IF b THEN 1 ELSE 0

\* codegen.c: the fp_inc and gp_inc of calling_convention and of va_arg
fp_inc(ty) == B2I(has_flonum1(ty)) + B2I(ty.size > 8 /\ has_flonum2(ty))
gp_inc(ty) == B2I(~has_flonum1(ty)) + B2I(ty.size > 8 /\ ~has_flonum2(ty))

\* The classes of the 8-byte chunks of a struct or union of at most 16 bytes,
\* as has_flonum1 and has_flonum2 give them wherever codegen.c asks.
Chunks(ty) ==
  IF IsAggregate(ty) /\ ty.size <= 16
  THEN IF ty.size > 8
       THEN <<IF has_flonum1(ty) THEN "FP" ELSE "GP", IF has_flonum2(ty) THEN "FP" ELSE "GP">>
       ELSE <<IF has_flonum1(ty) THEN "FP" ELSE "GP">>
  ELSE <<>>

\* calling_convention: the test that ends in "continue" for a struct or
\* union of at most 16 bytes.
FitsGpOnly(cc, ty) == gp_inc(ty) = 0 \/ cc.gp + gp_inc(ty) <= GP_MAX

Fits(cc, ty) ==
  /\ (fp_inc(ty) = 0 \/ cc.fp + fp_inc(ty) <= FP_MAX)
  /\ (gp_inc(ty) = 0 \/ cc.gp + gp_inc(ty) <= GP_MAX)

\* codegen.c: one turn of the loop of calling_convention, for the argument
\* of type ty; cc holds the locals gp, fp and stack.
calling_convention(cc, ty) ==
  LET regs == IF IsAggregate(ty) THEN ty.size <= 16 /\ Fits(cc, ty)
              ELSE IF ty.kind \in {"TY_FLOAT", "TY_DOUBLE"} THEN cc.fp < FP_MAX
              ELSE IF ty.kind = "TY_LDOUBLE" THEN FALSE
              ELSE cc.gp < GP_MAX
      gp == IF IsAggregate(ty) THEN (IF regs THEN cc.gp + gp_inc(ty) ELSE cc.gp)
            ELSE IF ty.kind \in {"TY_FLOAT", "TY_DOUBLE", "TY_LDOUBLE"} THEN cc.gp
            ELSE cc.gp + 1
      fp == IF IsAggregate(ty) THEN (IF regs THEN cc.fp + fp_inc(ty) ELSE cc.fp)
            ELSE IF ty.kind \in {"TY_FLOAT", "TY_DOUBLE"} THEN cc.fp + 1
            ELSE cc.fp
      at == IF ty.align > 8 THEN align_to(cc.stack, ty.align) ELSE cc.stack
  IN [gp |-> gp, fp |-> fp,
      stack |-> IF regs THEN cc.stack ELSE at + align_to(ty.size, 8),
      pass_by_stack |-> ~regs,
      stack_offset |-> IF regs THEN 0 ELSE at]

\* A place of an 8-byte chunk: general-purpose register number idx
\* (argreg64[idx]), %xmm idx, or the bytes at idx(%rsp) of the caller.
Loc(class, idx) == <<class, idx>>

\* codegen.c: the registers one argument takes in a loop that hands them out
\* with gp++ and fp++ (place_reg_args in the caller).
place_reg_args(r, ty) ==
  IF IsAggregate(ty) THEN
    LET c1 == IF has_flonum1(ty) THEN Loc("xmm", r.rfp) ELSE Loc("gp", r.rgp)
        g1 == r.rgp + B2I(~has_flonum1(ty))
        f1 == r.rfp + B2I(has_flonum1(ty))
    IN IF ty.size > 8
       THEN [where |-> <<c1, IF has_flonum2(ty) THEN Loc("xmm", f1) ELSE Loc("gp", g1)>>,
             rgp |-> g1 + B2I(~has_flonum2(ty)), rfp |-> f1 + B2I(has_flonum2(ty))]
       ELSE [where |-> <<c1>>, rgp |-> g1, rfp |-> f1]
  ELSE IF ty.kind \in {"TY_FLOAT", "TY_DOUBLE"} THEN
    [where |-> <<Loc("xmm", r.rfp)>>, rgp |-> r.rgp, rfp |-> r.rfp + 1]
  ELSE
    [where |-> <<Loc("gp", r.rgp)>>, rgp |-> r.rgp + 1, rfp |-> r.rfp]

\* codegen.c: emit_text, "Save passed-by-register arguments to the stack":
\* the registers the prologue stores for one parameter.
SaveRegParam(r, ty) ==
  IF IsAggregate(ty) THEN
    LET c1 == IF has_flonum1(ty) THEN Loc("xmm", r.rfp) ELSE Loc("gp", r.rgp)
        g1 == IF has_flonum1(ty) THEN r.rgp ELSE r.rgp + 1
        f1 == IF has_flonum1(ty) THEN r.rfp + 1 ELSE r.rfp
    IN IF ty.size > 8
       THEN IF has_flonum2(ty)
            THEN [where |-> <<c1, Loc("xmm", f1)>>, rgp |-> g1, rfp |-> f1 + 1]
            ELSE [where |-> <<c1, Loc("gp", g1)>>, rgp |-> g1 + 1, rfp |-> f1]
       ELSE [where |-> <<c1>>, rgp |-> g1, rfp |-> f1]
  ELSE IF ty.kind \in {"TY_FLOAT", "TY_DOUBLE"} THEN
    [where |-> <<Loc("xmm", r.rfp)>>, rgp |-> r.rgp, rfp |-> r.rfp + 1]
  ELSE
    [where |-> <<Loc("gp", r.rgp)>>, rgp |-> r.rgp + 1, rfp |-> r.rfp]

\* The caller's side of one argument: calling_convention, then
\* place_stack_args (stack_offset(%rsp)) or place_reg_args.
PassArg(st, ty) ==
  LET cc == calling_convention(st, ty)
      pr == place_reg_args(st, ty)
  IN [gp |-> cc.gp, fp |-> cc.fp, stack |-> cc.stack,
      rgp |-> IF cc.pass_by_stack THEN st.rgp ELSE pr.rgp,
      rfp |-> IF cc.pass_by_stack THEN st.rfp ELSE pr.rfp,
      pass_by_stack |-> cc.pass_by_stack,
      stack_offset |-> cc.stack_offset,
      chunks |-> Chunks(ty),
      where |-> IF cc.pass_by_stack THEN <<Loc("stack", cc.stack_offset)>>
                ELSE pr.where]

\* The callee's side of one named parameter: calling_convention, then
\* assign_lvar_offsets (var->ofs = stack_offset + 16 from %rbp, which is
\* stack_offset from the caller's %rsp) or the prologue's stores.
TakeParam(st, ty) ==
  LET cc == calling_convention(st, ty)
      pr == SaveRegParam(st, ty)
      ofs == cc.stack_offset + 16
  IN [gp |-> cc.gp, fp |-> cc.fp, stack |-> cc.stack,
      rgp |-> IF cc.pass_by_stack THEN st.rgp ELSE pr.rgp,
      rfp |-> IF cc.pass_by_stack THEN st.rfp ELSE pr.rfp,
      where |-> IF cc.pass_by_stack THEN <<Loc("stack", ofs - 16)>>
                ELSE pr.where]

Counters(st) ==
  [gp |-> st.gp, fp |-> st.fp, stack |-> st.stack, rgp |-> st.rgp, rfp |-> st.rfp]

\* The register whose value the prologue stored at byte ofs of the register
\* save area (-176(%rbp)): %rdi.. at 0, 8, .., 40 and %xmm0.. at 48, 64, ...
SavedReg(ofs) ==
  IF ofs < 48 THEN Loc("gp", ofs \div 8) ELSE Loc("xmm", (ofs - 48) \div 16)

\* codegen.c: gen_expr, ND_VA_ARG. The result holds the va_list after the
\* fetch and the places read; the overflow area is addressed from %rbp and
\* %rbp is 16 bytes below the caller's %rsp.
va_arg(ap, ty) ==
  LET gi == gp_inc(ty)
      fi == fp_inc(ty)
      in_regs == /\ ty.size <= 16
                 /\ ~(gi > 0 /\ ap.gp_offset > 48 - gi * 8)
                 /\ ~(fi > 0 /\ ap.fp_offset > 176 - fi * 16)
      c1 == IF has_flonum1(ty) THEN SavedReg(ap.fp_offset) ELSE SavedReg(ap.gp_offset)
      g1 == IF has_flonum1(ty) THEN ap.gp_offset ELSE ap.gp_offset + 8
      f1 == IF has_flonum1(ty) THEN ap.fp_offset + 16 ELSE ap.fp_offset
      c2 == IF has_flonum2(ty) THEN SavedReg(f1) ELSE SavedReg(g1)
      g2 == IF has_flonum2(ty) THEN g1 ELSE g1 + 8
      f2 == IF has_flonum2(ty) THEN f1 + 16 ELSE f1
      rcx == IF ty.align > 8 THEN align_to(ap.overflow_arg_area, ty.align)
             ELSE ap.overflow_arg_area
  IN IF in_regs THEN
       IF ty.size > 8
       THEN [gp_offset |-> g2, fp_offset |-> f2,
             overflow_arg_area |-> ap.overflow_arg_area, where |-> <<c1, c2>>]
       ELSE [gp_offset |-> g1, fp_offset |-> f1,
             overflow_arg_area |-> ap.overflow_arg_area, where |-> <<c1>>]
     ELSE [gp_offset |-> ap.gp_offset, fp_offset |-> ap.fp_offset,
           overflow_arg_area |-> rcx + align_to(ty.size, 8),
           where |-> <<Loc("stack", rcx - 16)>>]

\* codegen.c: copy_struct_reg, the registers that carry a returned struct
\* or union of at most 16 bytes.
copy_struct_reg(ty) ==
  LET r1 == IF has_flonum1(ty) THEN "xmm0" ELSE "rax"
      fp == B2I(has_flonum1(ty))
      gp == B2I(~has_flonum1(ty))
      r2 == IF has_flonum2(ty) THEN (IF fp = 0 THEN "xmm0" ELSE "xmm1")
            ELSE (IF gp = 0 THEN "rax" ELSE "rdx")
  IN IF ty.size > 8 THEN <<r1, r2>> ELSE <<r1>>

NoArg ==
  [ty |-> t_int, pass_by_stack |-> FALSE, stack_offset |-> 0,
   chunks |-> <<>>, where |-> <<>>]

\* The first arguments of the modelled calls: none, or integers and doubles
\* that take some or all of the registers (the way the parameter lists of
\* test/function2.c start).
Rep(n, ty) == [i \in 1..n |-> ty]
FirstArgs ==
  {<<>>, Rep(5, t_long), Rep(6, t_char), Rep(7, t_double), Rep(8, t_double),
   Rep(5, t_int) \o Rep(7, t_double), Rep(6, t_int) \o Rep(8, t_double)}

RECURSIVE PassAll(_, _)
PassAll(st, tys) ==
  IF tys = <<>> THEN st ELSE PassAll(Counters(PassArg(st, Head(tys))), Tail(tys))

RECURSIVE TakeAll(_, _)
TakeAll(st, tys) ==
  IF tys = <<>> THEN st ELSE TakeAll(Counters(TakeParam(st, Head(tys))), Tail(tys))

CallStart(ret) ==
  [gp |-> B2I(ret.size > 16), fp |-> 0, stack |-> 0,
   rgp |-> B2I(ret.size > 16), rfp |-> 0]

\* gen_expr ND_FUNCALL and emit_text: gp_count starts at rtn_by_stk.
CallInit ==
  /\ cl_pc = "named"
  /\ cl_n = 0
  /\ cl_ret \in ReturnTypes
  /\ \E first \in FirstArgs :
       /\ cl_caller = PassAll(CallStart(cl_ret), first)
       /\ cl_callee = TakeAll(CallStart(cl_ret), first)
  /\ cl_ap = [gp_offset |-> 0, fp_offset |-> 0, overflow_arg_area |-> 0]
  /\ cl_arg = NoArg
  /\ cl_read = <<>>
  /\ cl_used = <<>>
  /\ cl_retregs = <<>>
  /\ LayoutIdle /\ DirIdle /\ ExpandIdle /\ IdentIdle /\ ConvIdle /\ FrameIdle /\ VlaIdle /\ EvalIdle /\ EnumIdle /\ GvarIdle /\ UnitIdle /\ DeclIdle

\* The caller passes one more named argument and the callee's prologue
\* takes it as its next parameter.
PassNamed ==
  /\ cl_pc = "named"
  /\ cl_n < MaxArgs
  /\ \E ty \in ParamTypes :
       \E p \in {PassArg(cl_caller, ty)} : \E q \in {TakeParam(cl_callee, ty)} :
         /\ cl_caller' = Counters(p)
         /\ cl_callee' = Counters(q)
         /\ cl_arg' = [ty |-> ty, pass_by_stack |-> p.pass_by_stack,
                       stack_offset |-> p.stack_offset, chunks |-> p.chunks,
                       where |-> p.where]
         /\ cl_read' = q.where
         /\ cl_used' = IF p.pass_by_stack
                       THEN Append(cl_used, <<p.stack_offset, ty.size, ty.align>>)
                       ELSE cl_used
  /\ cl_n' = cl_n + 1
  /\ UNCHANGED <<cl_pc, cl_ret, cl_ap, cl_retregs>>
  /\ OnlyCall

\* emit_text sets va_gp_start, va_fp_start and va_st_start from the named
\* parameters, and va_start copies them into the va_list.
VaStart ==
  /\ cl_pc = "named"
  /\ cl_pc' = "variadic"
  /\ cl_ap' = [gp_offset |-> MIN(cl_callee.gp, GP_MAX) * 8,
               fp_offset |-> MIN(cl_callee.fp, FP_MAX) * 16 + 48,
               overflow_arg_area |-> cl_callee.stack + 16]
  /\ UNCHANGED <<cl_n, cl_ret, cl_caller, cl_callee, cl_arg, cl_read, cl_used, cl_retregs>>
  /\ OnlyCall

\* The caller passes one more argument for "..." and the callee fetches it
\* with va_arg.
PassVariadic ==
  /\ cl_pc = "variadic"
  /\ cl_n < MaxArgs
  /\ \E ty \in VarArgTypes :
       \E p \in {PassArg(cl_caller, ty)} : \E q \in {va_arg(cl_ap, ty)} :
         /\ cl_caller' = Counters(p)
         /\ cl_arg' = [ty |-> ty, pass_by_stack |-> p.pass_by_stack,
                       stack_offset |-> p.stack_offset, chunks |-> p.chunks,
                       where |-> p.where]
         /\ cl_ap' = [gp_offset |-> q.gp_offset, fp_offset |-> q.fp_offset,
                      overflow_arg_area |-> q.overflow_arg_area]
         /\ cl_read' = q.where
         /\ cl_used' = IF p.pass_by_stack
                       THEN Append(cl_used, <<p.stack_offset, ty.size, ty.align>>)
                       ELSE cl_used
  /\ cl_n' = cl_n + 1
  /\ UNCHANGED <<cl_pc, cl_ret, cl_callee, cl_retregs>>
  /\ OnlyCall

\* The callee returns: a struct or union of at most 16 bytes is loaded into
\* registers by copy_struct_reg.
Return ==
  /\ cl_pc \in {"named", "variadic"}
  /\ cl_pc' = "done"
  /\ cl_retregs' = IF IsAggregate(cl_ret) /\ cl_ret.size <= 16
                   THEN copy_struct_reg(cl_ret) ELSE <<>>
  /\ UNCHANGED <<cl_n, cl_ret, cl_caller, cl_callee, cl_ap, cl_arg, cl_read, cl_used>>
  /\ OnlyCall

NextCall == PassNamed \/ VaStart \/ PassVariadic \/ Return

SpecCall == CallInit /\ [][NextCall]_vars

\* ---- claims about argument passing ----

\* The bytes of a type that belong to members that are neither struct, union
\* nor array, each with the kind of its member.
RECURSIVE LeafBytes(_, _)
LeafBytes(ty, offset) ==
  IF IsAggregate(ty) THEN
    UNION {LeafBytes(ty.members[i].ty, offset + ty.members[i].offset) :
             i \in 1..Len(ty.members)}
  ELSE IF ty.kind = "TY_ARRAY" THEN
    UNION {LeafBytes(ty.base[1], offset + ty.base[1].size * i) :
             i \in 0..(ty.array_len - 1)}
  ELSE {<<b, ty.kind>> : b \in offset..(offset + ty.size - 1)}

\* Every member byte of the chunk [lo, hi) belongs to a float or a double.
AllFloatBytes(ty, lo, hi) ==
  \A bk \in LeafBytes(ty, 0) :
     bk[1] \in lo..(hi - 1) => bk[2] \in {"TY_FLOAT", "TY_DOUBLE"}

ChunkClassOk(ty, chunks) ==
  \A i \in 1..Len(chunks) :
     (chunks[i] = "FP") <=> AllFloatBytes(ty, 8 * (i - 1), 8 * i)

\* C12: for a struct or union of at most 16 bytes, an 8-byte chunk is
\* classified FP exactly when all its bytes belong to float or double
\* members (through nested structs, unions and arrays) and GP otherwise;
\* struct {double, int} is classified {FP, GP} and returned in xmm0 and rax.
C12_ChunkClass ==
  /\ (IsAggregate(cl_arg.ty) /\ cl_arg.ty.size <= 16) =>
        /\ Len(cl_arg.chunks) = (IF cl_arg.ty.size > 8 THEN 2 ELSE 1)
        /\ ChunkClassOk(cl_arg.ty, cl_arg.chunks)
  /\ cl_arg.ty = MD => cl_arg.chunks = <<"FP", "GP">>
  /\ (cl_pc = "done" /\ cl_ret = MD) => cl_retregs = <<"xmm0", "rax">>

ValidReg(loc) ==
  \/ loc[1] = "gp" /\ loc[2] \in 0..(GP_MAX - 1)
  \/ loc[1] = "xmm" /\ loc[2] \in 0..(FP_MAX - 1)

Disjoint(a, b) == a[1] + a[2] <= b[1] \/ b[1] + b[2] <= a[1]

\* C13: calling_convention hands out at most 6 general-purpose and 8
\* floating-point registers in total; an argument is passed entirely in
\* registers or entirely on the stack; the stack arguments get pairwise
\* disjoint byte ranges at offsets that are multiples of 8, and of the
\* type's alignment when that is above 8.
C13_RegsOrStack ==
  /\ cl_caller.rgp <= GP_MAX
  /\ cl_caller.rfp <= FP_MAX
  /\ cl_n > 0 =>
       IF cl_arg.pass_by_stack
       THEN /\ cl_arg.where = <<Loc("stack", cl_arg.stack_offset)>>
            /\ cl_used # <<>>
            /\ cl_used[Len(cl_used)] =
                 <<cl_arg.stack_offset, cl_arg.ty.size, cl_arg.ty.align>>
       ELSE /\ Len(cl_arg.where) = (cl_arg.ty.size + 7) \div 8
            /\ \A i \in 1..Len(cl_arg.where) : ValidReg(cl_arg.where[i])
  /\ \A i \in 1..Len(cl_used) :
       /\ cl_used[i][1] % 8 = 0
       /\ cl_used[i][3] > 8 => cl_used[i][1] % cl_used[i][3] = 0
       /\ \A j \in 1..Len(cl_used) : i # j => Disjoint(cl_used[i], cl_used[j])

\* A struct with a general-purpose and a floating-point chunk goes to the
\* stack because the floating-point registers have run out while
\* general-purpose ones are left; it is 16-byte aligned and lands at offset
\* 16, behind an 8-byte stack argument at offset 0.
C13_Witness ==
  /\ cl_arg.ty = LD
  /\ cl_arg.pass_by_stack
  /\ cl_caller.rgp < GP_MAX
  /\ cl_caller.rfp = FP_MAX
  /\ cl_used = <<<<0, 8, 8>>, <<16, 16, 16>>>>

\* C14: caller and callee agree on where every argument lives: the register
\* or stack offset the callee's prologue reads a named parameter from, and
\* the k-th va_arg reads the k-th argument of "..." from, is the one the
\* caller put it in.
C14_CallerCalleeAgree ==
  cl_n > 0 => cl_read = cl_arg.where

(***************************************************************************)
(*               STACK FRAME AND TEMP-STACK (codegen.c)                    *)
(***************************************************************************)

\* Bound: the nesting depth of the nodes of a function body, and the
\* number of temporaries that are live at once.
MaxDepth == 3

\* Bound: the number of local variables of the function's outermost scope.
MaxLocals == 2

\* A mutation of push_tmpstack: the first temporary starts at the frame
\* pointer and not below the local variables.
push_tmpstack_from_rbp(dont_reuse, tmp, peak, lvar, sz) ==
  IF dont_reuse
  THEN [peak |-> peak + 8 * sz, offset |-> 8 * sz]
  ELSE LET stk_pos == (IF Len(tmp) > 0 THEN tmp[Len(tmp)] ELSE 0) + 8 * sz
       IN [peak |-> MAX(peak, stk_pos), offset |-> stk_pos]

\* codegen.c: push_tmpstack, with peak_stk_usage after the call and the
\* offset returned; the caller appends the offset to tmp_stk.data.
push_tmpstack(dont_reuse, tmp, peak, lvar, sz) ==
  IF dont_reuse
  THEN [peak |-> peak + 8 * sz, offset |-> peak + 8 * sz]
  ELSE LET stk_pos == (IF Len(tmp) > 0 THEN tmp[Len(tmp)] ELSE lvar) + 8 * sz
       IN [peak |-> MAX(peak, stk_pos), offset |-> stk_pos]

\* A mutation of pop_tmpstack: the depth is not taken down.
pop_tmpstack_keep(tmp) == tmp

\* codegen.c: pop_tmpstack (tmp_stk.depth--)
pop_tmpstack(tmp) == SubSeq(tmp, 1, Len(tmp) - 1)

\* codegen.c: push and pushf take one 8-byte unit, push_x87 takes two.
PushSize(op) == IF op = "push_x87" THEN 2 ELSE 1
PushOps == {"push", "pushf", "push_x87"}
\* store() begins with pop("%rcx").
PopOps  == {"pop", "popf", "pop_x87", "store"}

\* The calls gen_expr, gen_addr and gen_stmt make for one node, in order,
\* by the kind of the node; a name that ends in a type or in _BITFIELD
\* stands for the branch of that kind taken for such operands.
ExprCalls ==
  [ND_NUM            |-> <<>>,
   ND_VAR            |-> <<"addr">>,
   ND_DEREF          |-> <<"expr">>,
   ND_ASSIGN         |-> <<"addr", "push", "expr", "store">>,
   ND_ASSIGN_BITFIELD |-> <<"addr", "push", "expr", "pop", "push", "store">>,
   ND_STMT_EXPR      |-> <<"stmt", "stmt">>,
   ND_COMMA          |-> <<"expr", "expr">>,
   ND_COND           |-> <<"expr", "expr", "expr">>,
   ND_FUNCALL        |-> <<"expr", "push", "expr", "pop">>,
   ND_FUNCALL_VOID   |-> <<"expr", "push", "pop">>,
   ND_VA_COPY        |-> <<"expr", "push", "expr", "pop">>,
   ND_ADD_DOUBLE     |-> <<"expr", "pushf", "expr", "popf">>,
   ND_ADD_LDOUBLE    |-> <<"expr", "push_x87", "expr", "pop_x87">>,
   ND_ADD            |-> <<"expr", "push", "expr", "pop">>]

AddrCalls ==
  [ND_VAR    |-> <<>>,
   ND_DEREF  |-> <<"expr">>,
   ND_COMMA  |-> <<"expr", "addr">>,
   ND_MEMBER |-> <<"addr">>]

StmtCalls ==
  [ND_GOTO      |-> <<>>,
   ND_EXPR_STMT |-> <<"expr">>,
   ND_RETURN    |-> <<"expr">>,
   ND_IF        |-> <<"expr", "stmt", "stmt">>]

CallsOf(op) ==
  IF op = "expr" THEN ExprCalls ELSE IF op = "addr" THEN AddrCalls ELSE StmtCalls

Item(op, depth) == [op |-> op, depth |-> depth]
Items(ops, depth) == [i \in 1..Len(ops) |-> Item(ops[i], depth)]

\* emit_text: gen_stmt(fn->body) with lvar_stk_sz and peak_stk_usage set;
\* tmp_stk is empty before the first function and, by the assert after
\* gen_stmt, after each.
GenInit ==
  /\ fr_pc = "body"
  /\ fr_dont_reuse \in BOOLEAN
  /\ fr_scopes = <<>>
  /\ fr_locals = <<>>
  /\ fr_lvar_stk_sz \in {0, 8, 176}
  /\ fr_peak = fr_lvar_stk_sz
  /\ fr_tmp = <<>>
  /\ fr_slot = <<>>
  /\ fr_todo = <<Item("stmt", 0)>>
  /\ LayoutIdle /\ DirIdle /\ ExpandIdle /\ IdentIdle /\ ConvIdle /\ CallIdle /\ VlaIdle /\ EvalIdle /\ EnumIdle /\ GvarIdle /\ UnitIdle /\ DeclIdle

\* gen_expr, gen_addr or gen_stmt is entered for a node: the calls it makes
\* for the node come before the calls that were left to make.
GenNode ==
  /\ fr_pc = "body"
  /\ fr_todo # <<>>
  /\ Head(fr_todo).op \in {"expr", "addr", "stmt"}
  /\ \E kind \in DOMAIN CallsOf(Head(fr_todo).op) :
       /\ Head(fr_todo).depth < MaxDepth \/ CallsOf(Head(fr_todo).op)[kind] = <<>>
       /\ fr_todo' = Items(CallsOf(Head(fr_todo).op)[kind], Head(fr_todo).depth + 1)
                       \o Tail(fr_todo)
  /\ UNCHANGED <<fr_pc, fr_dont_reuse, fr_scopes, fr_locals, fr_lvar_stk_sz,
                 fr_peak, fr_tmp, fr_slot>>
  /\ OnlyFrame

\* push, pushf, push_x87
Push ==
  /\ fr_pc = "body"
  /\ fr_todo # <<>>
  /\ Head(fr_todo).op \in PushOps
  /\ \E r \in {push_tmpstack(fr_dont_reuse, fr_tmp, fr_peak, fr_lvar_stk_sz,
                             PushSize(Head(fr_todo).op))} :
       /\ fr_peak' = r.peak
       /\ fr_tmp' = Append(fr_tmp, r.offset)
       /\ fr_slot' = <<r.offset, PushSize(Head(fr_todo).op)>>
  /\ fr_todo' = Tail(fr_todo)
  /\ UNCHANGED <<fr_pc, fr_dont_reuse, fr_scopes, fr_locals, fr_lvar_stk_sz>>
  /\ OnlyFrame

\* pop, popf, pop_x87, store
Pop ==
  /\ fr_pc = "body"
  /\ fr_todo # <<>>
  /\ Head(fr_todo).op \in PopOps
  /\ fr_tmp' = pop_tmpstack(fr_tmp)
  /\ fr_todo' = Tail(fr_todo)
  /\ UNCHANGED <<fr_pc, fr_dont_reuse, fr_scopes, fr_locals, fr_lvar_stk_sz,
                 fr_peak, fr_slot>>
  /\ OnlyFrame

\* gen_stmt(fn->body) returns to emit_text.
GenDone ==
  /\ fr_pc = "body"
  /\ fr_todo = <<>>
  /\ fr_pc' = "done"
  /\ UNCHANGED <<fr_dont_reuse, fr_scopes, fr_locals, fr_lvar_stk_sz, fr_peak,
                 fr_tmp, fr_slot, fr_todo>>
  /\ OnlyFrame

NextGen == GenNode \/ Push \/ Pop \/ GenDone

SpecGen == GenInit /\ [][NextGen]_vars

\* ---- claims about the temp-stack ----

Pushes(todo) == Cardinality({i \in 1..Len(todo) : todo[i].op \in PushOps})
Pops(todo) == Cardinality({i \in 1..Len(todo) : todo[i].op \in PopOps})

\* C15: every push onto the temp-stack is matched by exactly one later pop
\* (the pops still to come equal the pushes still to come plus the entries
\* on the temp-stack, and no pop finds it empty), so its depth is 0 when
\* the code of the function body has been generated.
C15_PushPopBalanced ==
  /\ Pops(fr_todo) = Pushes(fr_todo) + Len(fr_tmp)
  /\ (fr_todo # <<>> /\ Head(fr_todo).op \in PopOps) => fr_tmp # <<>>
  /\ fr_pc = "done" => fr_tmp = <<>>

\* The body is generated and three temporaries were live at once, an
\* 80-bit one among them.
C15_Witness ==
  /\ fr_pc = "done"
  /\ fr_tmp = <<>>
  /\ ~fr_dont_reuse
  /\ fr_peak = fr_lvar_stk_sz + 32

\* ---- the offsets of the local variables ----

\* A local variable as assign_lvar_offsets reads it; calling_convention has
\* set pass_by_stack and stack_offset of the parameters before.
Var(kind, size, align, pass_by_stack, stack_offset) ==
  [kind |-> kind, size |-> size, align |-> align,
   pass_by_stack |-> pass_by_stack, stack_offset |-> stack_offset]

\* int, long double, char[17], int[0], and a parameter that is passed on the
\* stack.
LocalVars ==
  {Var("TY_INT", 4, 4, FALSE, 0),
   Var("TY_LDOUBLE", 16, 16, FALSE, 0), Var("TY_ARRAY", 17, 1, FALSE, 0),
   Var("TY_ARRAY", 0, 4, FALSE, 0), Var("TY_LONG", 8, 8, TRUE, 0)}

Scope(locals, children) == [locals |-> locals, children |-> children]

\* The blocks inside the function body: none, one, two siblings, or a block
\* inside a block.
BlockA == Scope(<<Var("TY_LONG", 8, 8, FALSE, 0)>>, <<>>)
BlockB == Scope(<<Var("TY_CHAR", 1, 1, FALSE, 0), Var("TY_LDOUBLE", 16, 16, FALSE, 0)>>, <<>>)
Blocks ==
  {<<>>, <<BlockA>>, <<BlockA, BlockB>>,
   <<Scope(<<Var("TY_CHAR", 1, 1, FALSE, 0)>>, <<BlockB>>)>>}

Placed(var, ofs) ==
  [ofs |-> ofs, size |-> var.size, pass_by_stack |-> var.pass_by_stack]

\* codegen.c: assign_lvar_offsets, the loop over sc->locals
RECURSIVE AssignLocals(_, _, _)
AssignLocals(locals, bottom, placed) ==
  IF locals = <<>> THEN [bottom |-> bottom, placed |-> placed]
  ELSE LET var == Head(locals)
           align == IF var.kind = "TY_ARRAY" /\ var.size >= 16
                    THEN MAX(16, var.align) ELSE var.align
           b == align_to(bottom + var.size, align)
       IN IF var.pass_by_stack
          THEN AssignLocals(Tail(locals), bottom,
                            Append(placed, Placed(var, var.stack_offset + 16)))
          ELSE AssignLocals(Tail(locals), b, Append(placed, Placed(var, -b)))

\* codegen.c: assign_lvar_offsets, with the loop over sc->children
RECURSIVE assign_lvar_offsets(_, _, _, _)
RECURSIVE AssignChildren(_, _, _, _, _)
AssignChildren(children, bottom, max_depth, placed, dont_reuse) ==
  IF children = <<>> THEN [depth |-> max_depth, placed |-> placed]
  ELSE LET sub == assign_lvar_offsets(Head(children), bottom, placed, dont_reuse)
       IN IF dont_reuse
          THEN AssignChildren(Tail(children), sub.depth, sub.depth, sub.placed, dont_reuse)
          ELSE AssignChildren(Tail(children), bottom, MAX(max_depth, sub.depth),
                              sub.placed, dont_reuse)

assign_lvar_offsets(sc, bottom, placed, dont_reuse) ==
  LET l == AssignLocals(sc.locals, bottom, placed)
  IN AssignChildren(sc.children, l.bottom, l.bottom, l.placed, dont_reuse)

\* A function definition: whether it is variadic, whether it returns a
\* struct through a pointer, and its scopes.
FrameInit ==
  /\ fr_pc = "locals"
  /\ fr_dont_reuse \in BOOLEAN
  /\ \E is_variadic \in BOOLEAN, rtn_by_stk \in BOOLEAN,
        locals \in SeqsUpTo(LocalVars, MaxLocals), children \in Blocks :
       fr_scopes = [is_variadic |-> is_variadic, rtn_by_stk |-> rtn_by_stk,
                    scopes |-> Scope(locals, children)]
  /\ fr_locals = <<>>
  /\ fr_lvar_stk_sz = 0
  /\ fr_peak = 0
  /\ fr_tmp = <<>>
  /\ fr_slot = <<>>
  /\ fr_todo = <<>>
  /\ LayoutIdle /\ DirIdle /\ ExpandIdle /\ IdentIdle /\ ConvIdle /\ CallIdle /\ VlaIdle /\ EvalIdle /\ EnumIdle /\ GvarIdle /\ UnitIdle /\ DeclIdle

\* emit_text: the prologue up to "peak_stk_usage = lvar_stk_sz = ..."
EmitPrologue ==
  /\ fr_pc = "locals"
  /\ fr_pc' = "body"
  /\ \E r \in {assign_lvar_offsets(fr_scopes.scopes,
                  (IF fr_scopes.is_variadic THEN 176 ELSE 0)
                    + (IF fr_scopes.rtn_by_stk THEN 8 ELSE 0),
                  <<>>, fr_dont_reuse)} :
       /\ fr_locals' = r.placed
       /\ fr_lvar_stk_sz' = align_to(r.depth, 8)
       /\ fr_peak' = align_to(r.depth, 8)
  /\ UNCHANGED <<fr_dont_reuse, fr_scopes, fr_tmp, fr_slot, fr_todo>>
  /\ OnlyFrame

\* Some expression of the body pushes a temporary; with dont_reuse_stack
\* every push takes fresh bytes, so the bound caps peak_stk_usage.
PushTmp ==
  /\ fr_pc = "body"
  /\ Len(fr_tmp) < MaxDepth
  /\ \E sz \in {1, 2} :
       /\ fr_peak + 8 * sz <= fr_lvar_stk_sz + 16 * MaxDepth
       /\ \E r \in {push_tmpstack(fr_dont_reuse, fr_tmp, fr_peak, fr_lvar_stk_sz, sz)} :
            /\ fr_peak' = r.peak
            /\ fr_tmp' = Append(fr_tmp, r.offset)
            /\ fr_slot' = <<r.offset, sz>>
  /\ UNCHANGED <<fr_pc, fr_dont_reuse, fr_scopes, fr_locals, fr_lvar_stk_sz, fr_todo>>
  /\ OnlyFrame

\* ... and pops it again.
PopTmp ==
  /\ fr_pc = "body"
  /\ fr_tmp # <<>>
  /\ fr_tmp' = pop_tmpstack(fr_tmp)
  /\ UNCHANGED <<fr_pc, fr_dont_reuse, fr_scopes, fr_locals, fr_lvar_stk_sz,
                 fr_peak, fr_slot, fr_todo>>
  /\ OnlyFrame

NextFrame == EmitPrologue \/ PushTmp \/ PopTmp

SpecFrame == FrameInit /\ [][NextFrame]_vars

\* ---- claims about the frame ----

LocalBytes(v) == v.ofs..(v.ofs + v.size - 1)
\* push: mov %rax, -offset(%rbp); push_x87: fstpt -offset(%rbp)
SlotBytes(slot) == (0 - slot[1])..(0 - slot[1] + 8 * slot[2] - 1)

SlotsClearOfLocals ==
  fr_slot # <<>> =>
     \A i \in 1..Len(fr_locals) : LocalBytes(fr_locals[i]) \cap SlotBytes(fr_slot) = {}

\* C16 as stated: the frame offset of every local variable, parameters
\* included, is negative, and the bytes of every temporary slot are
\* disjoint from the bytes of every local variable.
C16_AllNegative ==
  /\ \A i \in 1..Len(fr_locals) : fr_locals[i].ofs < 0
  /\ SlotsClearOfLocals

\* C16, amended: every local variable of non-zero size that is not a
\* parameter passed on the stack lies in [-lvar_stk_sz, 0), a zero-sized one
\* has an offset in [-lvar_stk_sz, 0], a parameter passed on the stack lies
\* at 16 or above, and the bytes of every temporary slot lie below
\* -lvar_stk_sz, disjoint from the bytes of every local variable, with stack
\* reuse and without.
C16_NegativeUnlessStackParam ==
  /\ \A i \in 1..Len(fr_locals) :
       IF fr_locals[i].pass_by_stack THEN fr_locals[i].ofs >= 16
       ELSE /\ 0 - fr_lvar_stk_sz <= fr_locals[i].ofs
            /\ fr_locals[i].ofs + fr_locals[i].size <= 0
            /\ fr_locals[i].size > 0 => fr_locals[i].ofs < 0
  /\ fr_slot # <<>> => \A b \in SlotBytes(fr_slot) : b < 0 - fr_lvar_stk_sz
  /\ SlotsClearOfLocals

\* A function with a parameter passed on the stack, a local variable in a
\* block, and a second temporary handed out while the first is live.
C16_Witness ==
  /\ fr_pc = "body"
  /\ \E i \in 1..Len(fr_locals) : fr_locals[i].pass_by_stack
  /\ \E i \in 1..Len(fr_locals) : fr_locals[i].ofs < 0
  /\ Len(fr_tmp) = 2
  /\ fr_slot = <<fr_tmp[2], 2>>

(***************************************************************************)
(*          JUMPS OUT OF VLA SCOPES (parse.c, codegen.c)                   *)
(***************************************************************************)

\* Bound: the number of statements of the function body.
MaxStmts == 5

\* A VLA is the number of its declaration, NULL is no VLA.  The function
\* has one label name, so every goto names the one label.

\* parse.c: the walk "for (; vla; vla = vla->vla_next)" from vla, as the
\* list of the VLAs it visits.
RECURSIVE Chain(_, _)
Chain(vla_next, vla) ==
  IF vla = NULL THEN <<>> ELSE <<vla>> \o Chain(vla_next, vla_next[vla])

InSeq(x, s) == \E i \in 1..Len(s) : s[i] = x

\* A mutation of the search of resolve_goto_labels: every label's VLA counts
\* as found.
FoundOnChainAlways(vla_next, top_vla, dest_vla) == dest_vla

\* parse.c: resolve_goto_labels, the search for dest->top_vla on the chain
\* of x->top_vla; NULL when the walk ends without finding it.
FoundOnChain(vla_next, top_vla, dest_vla) ==
  IF InSeq(dest_vla, Chain(vla_next, top_vla)) THEN dest_vla ELSE NULL

VlaNode(kind, top_vla, target_vla, scope, target_scope) ==
  [kind |-> kind, top_vla |-> top_vla, target_vla |-> target_vla,
   scope |-> scope, target_scope |-> target_scope]

IsJump(node) == node.kind \in {"goto", "break", "continue"}

Labels(nodes) == {i \in 1..Len(nodes) : nodes[i].kind = "label"}
Gotos(nodes) == {i \in 1..Len(nodes) : nodes[i].kind = "goto"}
TheLabel(nodes) == nodes[CHOOSE i \in Labels(nodes) : TRUE]

\* parse.c: resolve_goto_labels for one goto x
resolve_goto(vla_next, x, dest) ==
  IF dest.top_vla = NULL THEN [x EXCEPT !.target_scope = dest.scope]
  ELSE [x EXCEPT !.target_vla = FoundOnChain(vla_next, x.top_vla, dest.top_vla),
                 !.target_scope = dest.scope]

\* resolve_goto_labels ends in error_tok for this goto.
Crosses(vla_next, x, dest) ==
  dest.top_vla # NULL /\ FoundOnChain(vla_next, x.top_vla, dest.top_vla) = NULL

\* A mutation of dealloc_vla: nothing is emitted for a jump to where no VLA
\* is in scope.
dealloc_vla_to_vla_only(fn_dealloc_vla, node) ==
  IF ~fn_dealloc_vla \/ node.top_vla = node.target_vla \/ node.target_vla = NULL
  THEN <<>> ELSE <<"vla", node.target_vla>>

\* codegen.c: dealloc_vla. <<"vla", v>> is "mov ofs-of-v(%rbp), %rsp",
\* <<"base", NULL>> is "mov -vla_base_ofs(%rbp), %rsp", <<>> is nothing.
dealloc_vla(fn_dealloc_vla, node) ==
  IF ~fn_dealloc_vla \/ node.top_vla = node.target_vla THEN <<>>
  ELSE IF node.target_vla # NULL THEN <<"vla", node.target_vla>>
  ELSE <<"base", NULL>>

\* parse.c: func_definition up to the "{" of the body, whose compound_stmt
\* is open.
VlaInit ==
  /\ vl_pc = "parse"
  /\ vl_n = 0
  /\ vl_vla_next = <<>>
  /\ vl_cur = NULL
  /\ vl_loop = [brk_vla |-> NULL, cont_vla |-> NULL, brk_label |-> FALSE]
  /\ vl_blocks = <<[target_vla |-> NULL, is_loop |-> FALSE,
                    loop |-> [brk_vla |-> NULL, cont_vla |-> NULL, brk_label |-> FALSE],
                    scope_len |-> 0]>>
  /\ vl_nodes = <<>>
  /\ vl_fn = [fn_use_vla |-> FALSE, dont_dealloc_vla |-> FALSE,
              dont_reuse_stack |-> FALSE, dealloc_vla |-> FALSE]
  /\ vl_scope = <<>>
  /\ vl_out = <<>>
  /\ vl_err = ""
  /\ LayoutIdle /\ DirIdle /\ ExpandIdle /\ IdentIdle /\ ConvIdle /\ CallIdle /\ FrameIdle /\ EvalIdle /\ EnumIdle /\ GvarIdle /\ UnitIdle /\ DeclIdle

Parsing == vl_pc = "parse" /\ vl_n < MaxStmts

\* parse.c: declaration of a VLA
ParseVla ==
  /\ Parsing
  /\ vl_vla_next' = Append(vl_vla_next, vl_cur)
  /\ vl_cur' = Len(vl_vla_next) + 1
  /\ vl_fn' = [vl_fn EXCEPT !.fn_use_vla = TRUE]
  /\ vl_scope' = Append(vl_scope, Len(vl_vla_next) + 1)
  /\ vl_n' = vl_n + 1
  /\ UNCHANGED <<vl_pc, vl_loop, vl_blocks, vl_nodes, vl_out, vl_err>>
  /\ OnlyVla

\* parse.c: compound_stmt at "{"
ParseOpenBlock ==
  /\ Parsing
  /\ vl_blocks' = Append(vl_blocks, [target_vla |-> vl_cur, is_loop |-> FALSE,
                                     loop |-> vl_loop, scope_len |-> Len(vl_scope)])
  /\ vl_n' = vl_n + 1
  /\ UNCHANGED <<vl_pc, vl_vla_next, vl_cur, vl_loop, vl_nodes, vl_fn, vl_scope,
                 vl_out, vl_err>>
  /\ OnlyVla

\* parse.c: "while (cond) {": loop_body, then compound_stmt at "{"
ParseLoop ==
  /\ Parsing
  /\ vl_blocks' = Append(vl_blocks, [target_vla |-> vl_cur, is_loop |-> TRUE,
                                     loop |-> vl_loop, scope_len |-> Len(vl_scope)])
  /\ vl_loop' = [vl_loop EXCEPT !.brk_vla = vl_cur, !.cont_vla = vl_cur, !.brk_label = TRUE]
  /\ vl_n' = vl_n + 1
  /\ UNCHANGED <<vl_pc, vl_vla_next, vl_cur, vl_nodes, vl_fn, vl_scope, vl_out, vl_err>>
  /\ OnlyVla

\* parse.c: compound_stmt at "}", and the end of loop_body after a loop's
\* block
ParseCloseBlock ==
  /\ vl_pc = "parse"
  /\ Len(vl_blocks) > 1
  /\ \E b \in {vl_blocks[Len(vl_blocks)]} :
       /\ vl_cur' = b.target_vla
       /\ vl_loop' = IF b.is_loop THEN b.loop ELSE vl_loop
       /\ vl_scope' = SubSeq(vl_scope, 1, b.scope_len)
  /\ vl_blocks' = SubSeq(vl_blocks, 1, Len(vl_blocks) - 1)
  /\ UNCHANGED <<vl_pc, vl_n, vl_vla_next, vl_nodes, vl_fn, vl_out, vl_err>>
  /\ OnlyVla

\* parse.c: stmt, ident ":"
ParseLabel ==
  /\ Parsing
  /\ Labels(vl_nodes) = {}
  /\ vl_nodes' = Append(vl_nodes, VlaNode("label", vl_cur, NULL, vl_scope, vl_scope))
  /\ vl_n' = vl_n + 1
  /\ UNCHANGED <<vl_pc, vl_vla_next, vl_cur, vl_loop, vl_blocks, vl_fn, vl_scope,
                 vl_out, vl_err>>
  /\ OnlyVla

\* parse.c: stmt, "goto" ident
ParseGoto ==
  /\ Parsing
  /\ vl_nodes' = Append(vl_nodes, VlaNode("goto", vl_cur, NULL, vl_scope, <<>>))
  /\ vl_n' = vl_n + 1
  /\ UNCHANGED <<vl_pc, vl_vla_next, vl_cur, vl_loop, vl_blocks, vl_fn, vl_scope,
                 vl_out, vl_err>>
  /\ OnlyVla

\* The VLAs in scope where the innermost loop begins.
LoopScope ==
  LET loops == {i \in 1..Len(vl_blocks) : vl_blocks[i].is_loop}
      inner == CHOOSE i \in loops : \A j \in loops : j <= i
  IN SubSeq(vl_scope, 1, vl_blocks[inner].scope_len)

\* parse.c: stmt, "break" (inside a loop; outside it is "stray break")
ParseBreak ==
  /\ Parsing
  /\ vl_loop.brk_label
  /\ vl_nodes' = Append(vl_nodes,
                        VlaNode("break", vl_cur, vl_loop.brk_vla, vl_scope, LoopScope))
  /\ vl_n' = vl_n + 1
  /\ UNCHANGED <<vl_pc, vl_vla_next, vl_cur, vl_loop, vl_blocks, vl_fn, vl_scope,
                 vl_out, vl_err>>
  /\ OnlyVla

\* parse.c: stmt, "continue"
ParseContinue ==
  /\ Parsing
  /\ vl_loop.brk_label
  /\ vl_nodes' = Append(vl_nodes,
                        VlaNode("continue", vl_cur, vl_loop.cont_vla, vl_scope, LoopScope))
  /\ vl_n' = vl_n + 1
  /\ UNCHANGED <<vl_pc, vl_vla_next, vl_cur, vl_loop, vl_blocks, vl_fn, vl_scope,
                 vl_out, vl_err>>
  /\ OnlyVla

\* parse.c: primary, a reference to the function alloca, or to one whose
\* name holds setjmp
ParseCall ==
  /\ Parsing
  /\ \E name \in {"alloca", "setjmp"} :
       vl_fn' = IF name = "alloca" THEN [vl_fn EXCEPT !.dont_dealloc_vla = TRUE]
                ELSE [vl_fn EXCEPT !.dont_reuse_stack = TRUE]
  /\ vl_n' = vl_n + 1
  /\ UNCHANGED <<vl_pc, vl_vla_next, vl_cur, vl_loop, vl_blocks, vl_nodes, vl_scope,
                 vl_out, vl_err>>
  /\ OnlyVla

\* parse.c: func_definition from the "}" of the body on: fn->dealloc_vla,
\* then resolve_goto_labels
EndFunction ==
  /\ vl_pc = "parse"
  /\ Len(vl_blocks) = 1
  /\ vl_blocks' = <<>>
  /\ vl_cur' = vl_blocks[1].target_vla
  /\ vl_scope' = <<>>
  /\ vl_fn' = [vl_fn EXCEPT !.dealloc_vla =
                 vl_fn.fn_use_vla /\ ~vl_fn.dont_dealloc_vla /\ ~vl_fn.dont_reuse_stack]
  /\ IF Gotos(vl_nodes) # {} /\ Labels(vl_nodes) = {}
     THEN /\ vl_pc' = "error"
          /\ vl_err' = "use of undeclared label"
          /\ UNCHANGED vl_nodes
     ELSE IF \E i \in Gotos(vl_nodes) : Crosses(vl_vla_next, vl_nodes[i], TheLabel(vl_nodes))
     THEN /\ vl_pc' = "error"
          /\ vl_err' = "jump crosses VLA initialization"
          /\ UNCHANGED vl_nodes
     ELSE /\ vl_pc' = "codegen"
          /\ vl_err' = ""
          /\ vl_nodes' = [i \in 1..Len(vl_nodes) |->
                            IF vl_nodes[i].kind = "goto"
                            THEN resolve_goto(vl_vla_next, vl_nodes[i], TheLabel(vl_nodes))
                            ELSE vl_nodes[i]]
  /\ UNCHANGED <<vl_n, vl_vla_next, vl_loop, vl_out>>
  /\ OnlyVla

\* codegen.c: gen_stmt, ND_GOTO for every goto, break and continue of the
\* function body: dealloc_vla(node), then the jmp
GenJumps ==
  /\ vl_pc = "codegen"
  /\ vl_pc' = "done"
  /\ vl_out' = [i \in 1..Len(vl_nodes) |->
                  IF IsJump(vl_nodes[i]) THEN dealloc_vla(vl_fn.dealloc_vla, vl_nodes[i])
                  ELSE <<>>]
  /\ UNCHANGED <<vl_n, vl_vla_next, vl_cur, vl_loop, vl_blocks, vl_nodes, vl_fn,
                 vl_scope, vl_err>>
  /\ OnlyVla

NextVla ==
  \/ ParseVla \/ ParseOpenBlock \/ ParseLoop \/ ParseCloseBlock \/ ParseLabel
  \/ ParseGoto \/ ParseBreak \/ ParseContinue \/ ParseCall \/ EndFunction \/ GenJumps

SpecVla == VlaInit /\ [][NextVla]_vars

\* ---- claims about jumps out of VLA scopes ----

LeavesVlaScope(node) == Len(node.scope) > Len(node.target_scope)

\* The restore to the snapshot that belongs to a jump target with the VLAs
\* ts in scope: the slot of the innermost one, or the saved initial %rsp.
Snapshot(ts) == IF ts = <<>> THEN <<"base", NULL>> ELSE <<"vla", ts[Len(ts)]>>

\* C17 as stated: in every function that declares a VLA, each goto, break
\* or continue that leaves the scope of one or more VLAs is preceded by the
\* mov that restores %rsp to the snapshot of the jump target.
C17_RestoreInVlaFunction ==
  (vl_pc = "done" /\ vl_fn.fn_use_vla) =>
     \A i \in 1..Len(vl_nodes) :
        (IsJump(vl_nodes[i]) /\ LeavesVlaScope(vl_nodes[i])) =>
           vl_out[i] = Snapshot(vl_nodes[i].target_scope)

\* C17, amended: in every function with fn->dealloc_vla set (it declares a
\* VLA, does not refer to alloca or take a label's address, and
\* dont_reuse_stack is off), each goto, break or continue that leaves the
\* scope of one or more VLAs is preceded by the mov that restores %rsp to
\* the snapshot of the jump target; every other jump has no such mov.
C17_RestoreWhenDeallocVla ==
  vl_pc = "done" =>
     \A i \in 1..Len(vl_nodes) :
        IsJump(vl_nodes[i]) =>
           vl_out[i] = IF vl_fn.dealloc_vla /\ LeavesVlaScope(vl_nodes[i])
                       THEN Snapshot(vl_nodes[i].target_scope) ELSE <<>>

\* A break out of the scope of a second VLA, inside a loop that lies in the
\* scope of a first one, restores %rsp from the slot of the first.
C17_Witness ==
  /\ vl_pc = "done"
  /\ \E i \in 1..Len(vl_nodes) :
       /\ vl_nodes[i].kind = "break"
       /\ vl_nodes[i].scope = <<1, 2>>
       /\ vl_out[i] = <<"vla", 1>>

\* C18: a goto whose label lies in the scope of a VLA that is not in scope
\* at the goto is rejected with "jump crosses VLA initialization"; for an
\* accepted goto the label is in no VLA scope, or the label's innermost VLA
\* is on the goto's own VLA chain and is the goto's restore target.
C18_GotoRejectedOrTargeted ==
  (vl_pc \in {"codegen", "done", "error"} /\ Labels(vl_nodes) # {}) =>
     \A i \in Gotos(vl_nodes) :
        LET x == vl_nodes[i]
            dest == TheLabel(vl_nodes)
        IN /\ (\E j \in 1..Len(dest.scope) : ~InSeq(dest.scope[j], x.scope)) =>
                 vl_pc = "error" /\ vl_err = "jump crosses VLA initialization"
           /\ vl_pc # "error" =>
                 \/ dest.scope = <<>>
                 \/ /\ InSeq(dest.scope[Len(dest.scope)], Chain(vl_vla_next, x.top_vla))
                    /\ x.target_vla = dest.scope[Len(dest.scope)]

\* An accepted goto from the scope of two VLAs back to a label in the scope
\* of the first only.
C18_Witness ==
  /\ vl_pc = "done"
  /\ \E i \in Gotos(vl_nodes) :
       /\ vl_nodes[i].scope = <<1, 2>>
       /\ vl_nodes[i].target_vla = 1
       /\ TheLabel(vl_nodes).scope = <<1>>

\* ==========================================================================
\* CONSTANT EXPRESSION EVALUATION (parse.c: eval_error, eval2, is_const_expr,
\* const_expr2)
\*
\* eval2 computes in the host's int64_t.  An int64_t is modelled as its eight
\* bytes in two's complement, least significant first, so that every value
\* keeps its full width; the operators below are the host's operators on
\* that representation.
\* ==========================================================================

\* the int64_t with the value n, for n within 32 bits
I64(n) ==
  [i \in 1..8 |-> IF i <= 4 THEN (n \div (256^(i - 1))) % 256
                  ELSE IF n < 0 THEN 255 ELSE 0]

I64_MIN == <<0, 0, 0, 0, 0, 0, 0, 128>>            \* INT64_MIN
I64_MAX == <<255, 255, 255, 255, 255, 255, 255, 127>>
I32_MIN == <<0, 0, 0, 128, 255, 255, 255, 255>>    \* (int64_t)INT32_MIN
I32_MAX == <<255, 255, 255, 127, 0, 0, 0, 0>>
U32_MAX == <<255, 255, 255, 255, 0, 0, 0, 0>>      \* (int64_t)UINT32_MAX

IsNegative(a) == a[8] >= 128

\* (intN_t)a and (uintN_t)a converted back to int64_t, for N = 8 * size
SignExtend(a, size) ==
  [i \in 1..8 |-> IF i <= size THEN a[i] ELSE IF a[size] >= 128 THEN 255 ELSE 0]

ZeroExtend(a, size) == [i \in 1..8 |-> IF i <= size THEN a[i] ELSE 0]

RECURSIVE AddCarry(_, _, _, _)
AddCarry(a, b, i, c) ==
  IF i > 8 THEN <<>>
  ELSE <<(a[i] + b[i] + c) % 256>>
       \o AddCarry(a, b, i + 1, (a[i] + b[i] + c) \div 256)

\* a + b, a - b, -a and ~a modulo 2^64
Add64(a, b) == AddCarry(a, b, 1, 0)
Not64(a) == [i \in 1..8 |-> 255 - a[i]]
Neg64(a) == AddCarry(Not64(a), I64(0), 1, 1)
Sub64(a, b) == AddCarry(a, Not64(b), 1, 1)

RECURSIVE ColumnSum(_, _, _, _)
ColumnSum(a, b, k, i) ==
  IF i > k THEN 0 ELSE (a[i] * b[k + 1 - i]) + ColumnSum(a, b, k, i + 1)

RECURSIVE MulCarry(_, _, _, _)
MulColumn(a, b, k, s) == <<s % 256>> \o MulCarry(a, b, k + 1, s \div 256)
MulCarry(a, b, k, c) ==
  IF k > 8 THEN <<>> ELSE MulColumn(a, b, k, ColumnSum(a, b, k, 1) + c)

\* a * b modulo 2^64
Mul64(a, b) == MulCarry(a, b, 1, 0)

RECURSIVE BitAnd(_, _)
BitAnd(x, y) ==
  IF x = 0 \/ y = 0 THEN 0
  ELSE ((x % 2) * (y % 2)) + (2 * BitAnd(x \div 2, y \div 2))

And64(a, b) == [i \in 1..8 |-> BitAnd(a[i], b[i])]
Or64(a, b) == [i \in 1..8 |-> a[i] + b[i] - BitAnd(a[i], b[i])]
Xor64(a, b) == [i \in 1..8 |-> a[i] + b[i] - 2 * BitAnd(a[i], b[i])]

ByteAt(a, i, fill) == IF i < 1 THEN 0 ELSE IF i > 8 THEN fill ELSE a[i]

\* a << n, and a >> n with the vacated bytes taken from fill, for 0 <= n < 64
Shl64(a, n) ==
  [i \in 1..8 |->
     ((ByteAt(a, i - (n \div 8), 0) * 2^(n % 8)) % 256)
     + (ByteAt(a, i - (n \div 8) - 1, 0) \div 2^(8 - (n % 8)))]

Shr64(a, n, fill) ==
  [i \in 1..8 |->
     (ByteAt(a, i + (n \div 8), fill) \div 2^(n % 8))
     + ((ByteAt(a, i + (n \div 8) + 1, fill) * 2^(8 - (n % 8))) % 256)]

Lsr64(a, n) == Shr64(a, n, 0)
Asr64(a, n) == Shr64(a, n, IF IsNegative(a) THEN 255 ELSE 0)

\* a < b as unsigned numbers
RECURSIVE BelowFrom(_, _, _)
BelowFrom(a, b, i) ==
  IF i = 0 THEN FALSE
  ELSE IF a[i] # b[i] THEN a[i] < b[i]
  ELSE BelowFrom(a, b, i - 1)

Below(a, b) == BelowFrom(a, b, 8)

BitOf(a, i) == (a[((i - 1) \div 8) + 1] \div 2^((i - 1) % 8)) % 2

\* unsigned long division, one bit of the dividend at a time from the top:
\* q and r are the quotient and the remainder of the bits above bit i (the
\* test of q, never empty, has q computed at every step)
RECURSIVE UDivLoop(_, _, _, _, _)
UDivBit(n, d, i, q, over, r2) ==
  IF over \/ ~Below(r2, d)
  THEN UDivLoop(n, d, i - 1, AddCarry(q, q, 1, 1), Sub64(r2, d))
  ELSE UDivLoop(n, d, i - 1, AddCarry(q, q, 1, 0), r2)
UDivLoop(n, d, i, q, r) ==
  IF i = 0 \/ q = <<>> THEN [q |-> q, r |-> r]
  ELSE UDivBit(n, d, i, q, IsNegative(r), AddCarry(r, r, 1, BitOf(n, i)))

\* the same division by a divisor below 2^23, one byte of the dividend at a
\* time: r is the remainder of the bytes above byte i, a plain number
RECURSIVE ShortDivLoop(_, _, _, _)
ShortDivByte(rest, digit) == [q |-> Append(rest.q, digit), r |-> rest.r]
ShortDivLoop(n, d, i, r) ==
  IF i = 0 THEN [q |-> <<>>, r |-> I64(r)]
  ELSE ShortDivByte(ShortDivLoop(n, d, i - 1, (r * 256 + n[i]) % d),
                    (r * 256 + n[i]) \div d)

IsShort(d) == d[3] < 128 /\ \A i \in 4..8 : d[i] = 0

\* (uint64_t)a / (uint64_t)b and (uint64_t)a % (uint64_t)b, for b # 0
UDivMod64(a, b) ==
  IF Below(a, b) THEN [q |-> I64(0), r |-> a]
  ELSE IF IsShort(b) THEN ShortDivLoop(a, b[1] + 256 * b[2] + 65536 * b[3], 8, 0)
  ELSE UDivLoop(a, b, 64, I64(0), I64(0))

UDiv64(a, b) == UDivMod64(a, b).q
UMod64(a, b) == UDivMod64(a, b).r

Abs64(a) == IF IsNegative(a) THEN Neg64(a) ELSE a

\* a / b and a % b of int64_t, truncating towards zero, for b # 0 and not
\* INT64_MIN / -1
SDiv64(a, b) ==
  IF IsNegative(a) = IsNegative(b) THEN UDiv64(Abs64(a), Abs64(b))
  ELSE Neg64(UDiv64(Abs64(a), Abs64(b)))

SMod64(a, b) ==
  IF IsNegative(a) THEN Neg64(UMod64(Abs64(a), Abs64(b)))
  ELSE UMod64(Abs64(a), Abs64(b))

\* the product of two uint64_t in full, sixteen bytes
RECURSIVE WideColumnSum(_, _, _, _)
WideColumnSum(a, b, k, i) ==
  IF i > k THEN 0
  ELSE (ByteAt(a, i, 0) * ByteAt(b, k + 1 - i, 0)) + WideColumnSum(a, b, k, i + 1)

RECURSIVE WideCarry(_, _, _, _)
WideColumn(a, b, k, s) == <<s % 256>> \o WideCarry(a, b, k + 1, s \div 256)
WideCarry(a, b, k, c) ==
  IF k > 16 THEN <<>> ELSE WideColumn(a, b, k, WideColumnSum(a, b, k, 1) + c)

\* signed overflow of int64_t, which the host leaves undefined
AddOverflows(a, b) ==
  IsNegative(a) = IsNegative(b) /\ IsNegative(Add64(a, b)) # IsNegative(a)

SubOverflows(a, b) ==
  IsNegative(a) # IsNegative(b) /\ IsNegative(Sub64(a, b)) # IsNegative(a)

WideFits(wide, negative) ==
  /\ \A i \in 9..16 : wide[i] = 0
  /\ \/ wide[8] < 128
     \/ negative /\ SubSeq(wide, 1, 8) = I64_MIN

MulOverflows(a, b) ==
  ~WideFits(WideCarry(Abs64(a), Abs64(b), 1, 0), IsNegative(a) # IsNegative(b))

\* ---- the evaluator ----

MaxOps == 1          \* the operators of an expression

\* the outcome of one case of eval2: the value returned, whether the host
\* computation was undefined, whether the host divided, and the message
\* passed to eval_error ("" when none)
Res(val, ub) == [val |-> val, ub |-> ub, host_div |-> FALSE, err |-> ""]
Quotient(val) == [val |-> val, ub |-> FALSE, host_div |-> TRUE, err |-> ""]
EvalErr(msg) == [val |-> I64(0), ub |-> FALSE, host_div |-> FALSE, err |-> msg]

\* case ND_CAST with every narrow type taken as unsigned
eval_cast_zero_extended(ty, val) ==
  IF ty.kind = "TY_BOOL" THEN (IF val = I64(0) THEN I64(0) ELSE I64(1))
  ELSE IF is_integer(ty) /\ ty.size \in {1, 2, 4} THEN ZeroExtend(val, ty.size)
  ELSE val

\* case ND_CAST, from an integer to an integer type
eval_cast(ty, val) ==
  IF ty.kind = "TY_BOOL" THEN (IF val = I64(0) THEN I64(0) ELSE I64(1))
  ELSE IF is_integer(ty) /\ ty.size \in {1, 2, 4}
  THEN IF ty.is_unsigned THEN ZeroExtend(val, ty.size) ELSE SignExtend(val, ty.size)
  ELSE val

\* case ND_ADD, ND_SUB, ND_MUL
eval_arith(kind, lval, rval) ==
  IF kind = "ND_ADD" THEN Res(Add64(lval, rval), AddOverflows(lval, rval))
  ELSE IF kind = "ND_SUB" THEN Res(Sub64(lval, rval), SubOverflows(lval, rval))
  ELSE Res(Mul64(lval, rval), MulOverflows(lval, rval))

\* case ND_DIV with the zero divisor not reported
eval_div_zero_unreported(ty, lval, rval) ==
  IF rval = I64(0) THEN Res(I64(0), FALSE)
  ELSE IF ty.is_unsigned THEN Quotient(UDiv64(lval, rval))
  ELSE IF lval = I64_MIN /\ rval = I64(-1) THEN Res(I64_MIN, FALSE)
  ELSE Quotient(SDiv64(lval, rval))

\* case ND_DIV
eval_div(ty, lval, rval) ==
  IF rval = I64(0) THEN EvalErr("division by zero during constant evaluation")
  ELSE IF ty.is_unsigned THEN Quotient(UDiv64(lval, rval))
  ELSE IF lval = I64_MIN /\ rval = I64(-1) THEN Res(I64_MIN, FALSE)
  ELSE Quotient(SDiv64(lval, rval))

\* case ND_MOD
eval_mod(ty, lval, rval) ==
  IF rval = I64(0) THEN EvalErr("remainder by zero during constant evaluation")
  ELSE IF ty.is_unsigned THEN Quotient(UMod64(lval, rval))
  ELSE IF lval = I64_MIN /\ rval = I64(-1) THEN Res(I64(0), FALSE)
  ELSE Quotient(SMod64(lval, rval))

\* case ND_BITAND, ND_BITOR, ND_BITXOR
eval_bitwise(kind, lval, rval) ==
  IF kind = "ND_BITAND" THEN Res(And64(lval, rval), FALSE)
  ELSE IF kind = "ND_BITOR" THEN Res(Or64(lval, rval), FALSE)
  ELSE Res(Xor64(lval, rval), FALSE)

\* case ND_NEG: -eval(lhs) is computed in int64_t before the conversion
eval_neg(ty, val) ==
  IF ty.size = 4
  THEN IF ty.is_unsigned THEN Res(ZeroExtend(Neg64(val), 4), val = I64_MIN)
       ELSE Res(SignExtend(Neg64(val), 4), val = I64_MIN)
  ELSE Res(Neg64(val), val = I64_MIN)

\* case ND_BITNOT
eval_bitnot(ty, val) ==
  IF ty.size = 4
  THEN IF ty.is_unsigned THEN Res(ZeroExtend(Not64(val), 4), FALSE)
       ELSE Res(SignExtend(Not64(val), 4), FALSE)
  ELSE Res(Not64(val), FALSE)

\* case ND_SHL, by n bits.  The host shifts a uint32_t, an int32_t or an
\* int64_t; a count of the width or more, and for the signed operands a
\* negative operand or a result out of range, are undefined in the host,
\* where the machine shifts by the count modulo the width and wraps.
eval_shl(ty, val, n) ==
  IF ty.size = 4
  THEN IF ty.is_unsigned
       THEN Res(ZeroExtend(Shl64(ZeroExtend(val, 4), n % 32), 4), n >= 32)
       ELSE Res(SignExtend(Shl64(SignExtend(val, 4), n % 32), 4),
                \/ n >= 32
                \/ IsNegative(SignExtend(val, 4))
                \/ Shl64(SignExtend(val, 4), n % 32)
                     # SignExtend(Shl64(SignExtend(val, 4), n % 32), 4))
  ELSE Res(Shl64(val, n % 64),
           n >= 64 \/ IsNegative(val) \/ Asr64(Shl64(val, n % 64), n % 64) # val)

\* case ND_SHR
eval_shr(ty, val, n) ==
  IF ty.size = 4 THEN Res(Lsr64(ZeroExtend(val, 4), n % 32), n >= 32)
  ELSE Res(Lsr64(val, n % 64), n >= 64)

\* case ND_SAR
eval_sar(ty, val, n) ==
  IF ty.size = 4 THEN Res(Asr64(SignExtend(val, 4), n % 32), n >= 32)
  ELSE Res(Asr64(val, n % 64), n >= 64)

\* a node with its type and the outcome of its evaluation: val is what eval2
\* returned, lval and rval what its operands evaluated to, host_div whether
\* the host divided, ub whether the host computation was undefined so far
EvNode(kind, ty, val, lval, rval, host_div, ub) ==
  [kind |-> kind, ty |-> ty, val |-> val, lval |-> lval, rval |-> rval,
   host_div |-> host_div, ub |-> ub]

Leaf(ty, val) == [ty |-> ty, val |-> val]

\* the numbers of the expressions (ND_NUM with the type of the literal)
NumLeaves ==
  {Leaf(ty_int, I64(n)) : n \in {0, 1, -1, 2, 200}}
  \cup {Leaf(ty_int, I32_MAX), Leaf(ty_int, I32_MIN),
        Leaf(ty_uint, I64(1)), Leaf(ty_uint, U32_MAX),
        Leaf(ty_long, I64(-1)), Leaf(ty_long, I64_MIN), Leaf(ty_long, I64_MAX),
        Leaf(ty_ulong, I64(-1))}

\* the right operands of the binary operators
RhsLeaves ==
  {Leaf(ty_int, I64(n)) : n \in {0, 1, -1, 2}}
  \cup {Leaf(ty_uint, U32_MAX), Leaf(ty_long, I64_MAX)}

ShiftCounts == {1, 31, 33}

CastTypes ==
  {ty_bool, ty_char, ty_uchar, ty_short, ty_ushort, ty_int, ty_uint, ty_long, ty_ulong}

CondTypes == {ty_int, ty_uint, ty_long}

\* usual_arith_conv: the type both operands are cast to
usual_arith_conv(lty, rty) ==
  get_common_type(Operand(lty, FALSE, 0), Operand(rty, FALSE, 0))

\* the operand of a unary operator or a shift after int_promotion, which
\* casts it only when the promotion changes its type
PromotedOperand(node) ==
  LET ty == int_promotion(Operand(node.ty, FALSE, 0))
  IN [ty |-> ty,
      val |-> IF ty = node.ty THEN node.val ELSE eval_cast(ty, node.val)]

\* what a build makes of a computation: where the host leaves it
\* undefined, the machine's wrapped result or a trap
HostOutcomes(ub) == IF ub THEN {"wrap", "trap"} ELSE {"wrap"}

\* eval_error with every error fatal
eval_error_fatal(recover) == "exit"

\* eval_error: while eval_recover is set the failure is recorded and 0 is
\* returned, otherwise the message is printed and the process exits
eval_error(recover) == IF recover THEN "recorded" ELSE "exit"

EvalInit ==
  /\ ev_pc = "start" /\ ev_recover = FALSE /\ ev_failed = FALSE
  /\ ev_node = <<>> /\ ev_n = 0 /\ ev_err = "" /\ ev_raised = FALSE /\ ev_ret = <<>>
  /\ LayoutIdle /\ DirIdle /\ ExpandIdle /\ IdentIdle /\ ConvIdle /\ CallIdle /\ FrameIdle /\ VlaIdle /\ EnumIdle /\ GvarIdle /\ UnitIdle /\ DeclIdle

\* is_const_expr: after assert(!eval_recover), eval_recover points at
\* failed while the node is evaluated
IsConstExpr ==
  /\ ev_pc = "start"
  /\ IF ev_recover
     THEN ev_pc' = "abort" /\ UNCHANGED <<ev_recover, ev_failed>>
     ELSE ev_pc' = "num" /\ ev_recover' = TRUE /\ ev_failed' = FALSE
  /\ UNCHANGED <<ev_node, ev_n, ev_err, ev_raised, ev_ret>> /\ OnlyEval

\* const_expr2: the node is evaluated with eval_recover unset
ConstExpr2 ==
  /\ ev_pc = "start"
  /\ ev_pc' = "num"
  /\ UNCHANGED <<ev_recover, ev_failed, ev_node, ev_n, ev_err, ev_raised, ev_ret>>
  /\ OnlyEval

\* The operands of a node are evaluated before the node's own case applies,
\* the left one first, so the evaluation is followed from the innermost left
\* operand outwards: ev_node is the operand evaluated so far, and each action
\* below puts one operator on top of it.

\* case ND_NUM
EvalNum ==
  /\ ev_pc = "num"
  /\ \E leaf \in NumLeaves :
       ev_node' = EvNode("ND_NUM", leaf.ty, leaf.val, <<>>, <<>>, FALSE, FALSE)
  /\ ev_pc' = "eval"
  /\ UNCHANGED <<ev_recover, ev_failed, ev_n, ev_err, ev_raised, ev_ret>> /\ OnlyEval

\* the end of eval2: a node that is no constant, here a local variable as
\* the innermost operand, goes to eval_error
EvalNotConstant ==
  /\ ev_pc = "num"
  /\ ev_raised' = TRUE
  /\ IF eval_error(ev_recover) = "recorded"
     THEN /\ ev_node' = EvNode("ND_VAR", ty_int, I64(0), <<>>, <<>>, FALSE, FALSE)
          /\ ev_failed' = TRUE /\ ev_pc' = "eval"
          /\ UNCHANGED ev_err
     ELSE /\ ev_node' = EvNode("ND_VAR", ty_int, <<>>, <<>>, <<>>, FALSE, FALSE)
          /\ ev_pc' = "exit" /\ ev_err' = "not a compile-time constant"
          /\ UNCHANGED ev_failed
  /\ UNCHANGED <<ev_recover, ev_n, ev_ret>> /\ OnlyEval

Evaluating == ev_pc = "eval" /\ ev_n < MaxOps

\* the node of the given kind and type is evaluated to res; a message in
\* res goes to eval_error, which records the failure and returns 0 while
\* eval_recover is set and exits otherwise
Yield(kind, ty, lval, rval, res) ==
  /\ ev_n' = ev_n + 1
  /\ IF res.err # ""
     THEN /\ ev_raised' = TRUE
          /\ IF eval_error(ev_recover) = "recorded"
             THEN /\ ev_node' = EvNode(kind, ty, I64(0), lval, rval, FALSE, ev_node.ub)
                  /\ ev_failed' = TRUE
                  /\ UNCHANGED <<ev_pc, ev_err>>
             ELSE /\ ev_node' = EvNode(kind, ty, <<>>, lval, rval, FALSE, ev_node.ub)
                  /\ ev_pc' = "exit" /\ ev_err' = res.err
                  /\ UNCHANGED ev_failed
     ELSE /\ ev_node' = EvNode(kind, ty, res.val, lval, rval, res.host_div,
                               ev_node.ub \/ res.ub)
          /\ \E outcome \in HostOutcomes(res.ub) :
               ev_pc' = IF outcome = "trap" THEN "trap" ELSE "eval"
          /\ UNCHANGED <<ev_failed, ev_err, ev_raised>>
  /\ UNCHANGED <<ev_recover, ev_ret>> /\ OnlyEval

\* case ND_ADD, ND_SUB, ND_MUL
EvalArith ==
  /\ Evaluating
  /\ \E kind \in {"ND_ADD", "ND_SUB", "ND_MUL"}, rhs \in RhsLeaves :
       LET ty == usual_arith_conv(ev_node.ty, rhs.ty)
           lval == eval_cast(ty, ev_node.val)
           rval == eval_cast(ty, rhs.val)
       IN Yield(kind, ty, lval, rval, eval_arith(kind, lval, rval))

\* case ND_DIV
EvalDiv ==
  /\ Evaluating
  /\ \E rhs \in RhsLeaves :
       LET ty == usual_arith_conv(ev_node.ty, rhs.ty)
           lval == eval_cast(ty, ev_node.val)
           rval == eval_cast(ty, rhs.val)
       IN Yield("ND_DIV", ty, lval, rval, eval_div(ty, lval, rval))

\* case ND_MOD
EvalMod ==
  /\ Evaluating
  /\ \E rhs \in RhsLeaves :
       LET ty == usual_arith_conv(ev_node.ty, rhs.ty)
           lval == eval_cast(ty, ev_node.val)
           rval == eval_cast(ty, rhs.val)
       IN Yield("ND_MOD", ty, lval, rval, eval_mod(ty, lval, rval))

\* case ND_BITAND, ND_BITOR, ND_BITXOR
EvalBitwise ==
  /\ Evaluating
  /\ \E kind \in {"ND_BITAND", "ND_BITOR", "ND_BITXOR"}, rhs \in RhsLeaves :
       LET ty == usual_arith_conv(ev_node.ty, rhs.ty)
           lval == eval_cast(ty, ev_node.val)
           rval == eval_cast(ty, rhs.val)
       IN Yield(kind, ty, lval, rval, eval_bitwise(kind, lval, rval))

\* case ND_SHL, ND_SHR, ND_SAR: shift() makes >> an ND_SHR when the type of
\* the left operand, before its promotion, is unsigned
EvalShift ==
  /\ Evaluating
  /\ \E op \in {"<<", ">>"}, n \in ShiftCounts :
       LET lhs == PromotedOperand(ev_node)
       IN IF op = "<<"
          THEN Yield("ND_SHL", lhs.ty, lhs.val, I64(n), eval_shl(lhs.ty, lhs.val, n))
          ELSE IF ev_node.ty.is_unsigned
          THEN Yield("ND_SHR", lhs.ty, lhs.val, I64(n), eval_shr(lhs.ty, lhs.val, n))
          ELSE Yield("ND_SAR", lhs.ty, lhs.val, I64(n), eval_sar(lhs.ty, lhs.val, n))

\* case ND_NEG, ND_BITNOT
EvalUnary ==
  /\ Evaluating
  /\ \E kind \in {"ND_NEG", "ND_BITNOT"} :
       LET lhs == PromotedOperand(ev_node)
       IN IF kind = "ND_NEG"
          THEN Yield(kind, lhs.ty, lhs.val, <<>>, eval_neg(lhs.ty, lhs.val))
          ELSE Yield(kind, lhs.ty, lhs.val, <<>>, eval_bitnot(lhs.ty, lhs.val))

\* case ND_COND: only the chosen branch is evaluated, here ev_node; both
\* branches were cast to their common type
EvalCond ==
  /\ Evaluating
  /\ \E other \in CondTypes :
       LET ty == usual_arith_conv(ev_node.ty, other)
       IN Yield("ND_COND", ty, ev_node.val, <<>>, Res(eval_cast(ty, ev_node.val), FALSE))

\* case ND_CAST
EvalCast ==
  /\ Evaluating
  /\ \E ty \in CastTypes :
       Yield("ND_CAST", ty, ev_node.val, <<>>, Res(eval_cast(ty, ev_node.val), FALSE))

\* const_expr2 returns the value; is_const_expr stores it, unsets
\* eval_recover and returns !failed
EvalReturn ==
  /\ ev_pc = "eval"
  /\ ev_pc' = "done" /\ ev_recover' = FALSE
  /\ ev_ret' = IF ev_recover THEN <<"bool", ~ev_failed>> ELSE <<"int", ev_node.val>>
  /\ UNCHANGED <<ev_failed, ev_node, ev_n, ev_err, ev_raised>> /\ OnlyEval

\* the parser goes on to its next constant expression
EvalAgain ==
  /\ ev_pc = "done"
  /\ ev_pc' = "start" /\ ev_failed' = FALSE /\ ev_node' = <<>> /\ ev_n' = 0
  /\ ev_raised' = FALSE /\ ev_ret' = <<>>
  /\ UNCHANGED <<ev_recover, ev_err>> /\ OnlyEval

NextEval ==
  \/ IsConstExpr \/ ConstExpr2 \/ EvalNum \/ EvalNotConstant
  \/ EvalArith \/ EvalDiv \/ EvalMod \/ EvalBitwise \/ EvalShift \/ EvalUnary
  \/ EvalCond \/ EvalCast \/ EvalReturn \/ EvalAgain

SpecEval == EvalInit /\ [][NextEval]_vars

\* ---- claims about constant expression evaluation ----

\* the operators that C19 names
TopOperators ==
  {"ND_ADD", "ND_SUB", "ND_MUL", "ND_DIV", "ND_MOD", "ND_BITAND", "ND_BITOR",
   "ND_BITXOR", "ND_SHL", "ND_SHR", "ND_SAR", "ND_NEG", "ND_BITNOT", "ND_COND",
   "ND_CAST"}

\* the value is one of the node's 32-bit type, sign- or zero-extended
Wrapped32(node) ==
  node.val = IF node.ty.is_unsigned THEN ZeroExtend(node.val, 4)
             ELSE SignExtend(node.val, 4)

Evaluated == ev_pc \in {"eval", "done"}

\* C19: for every integer constant expression whose result type is 32 bits
\* wide, whichever of the operators is at its top, the value returned is
\* wrapped to 32 bits, sign-extended for a signed and zero-extended for an
\* unsigned type (evaluations in which the host computation was undefined
\* set aside).
C19_ResultWrappedTo32 ==
  (Evaluated /\ ev_node.kind \in TopOperators /\ ev_node.ty.size = 4 /\ ~ev_node.ub) =>
     Wrapped32(ev_node)

\* what does hold: the value is wrapped under every operator but +, -, *
\* and /, whose cases return the int64_t result as it is
WrappedExceptArithmetic ==
  (/\ Evaluated
   /\ ev_node.kind \in TopOperators \ {"ND_ADD", "ND_SUB", "ND_MUL", "ND_DIV"}
   /\ ev_node.ty.size = 4 /\ ~ev_node.ub) =>
     Wrapped32(ev_node)

DivisionNode ==
  ev_pc \in {"eval", "done", "exit", "trap"} /\ ev_node.kind \in {"ND_DIV", "ND_MOD"}

\* a zero divisor is reported through eval_error, fatally or as a recorded
\* failure, and the host does not divide
ZeroDivisorReported ==
  ev_node.rval = I64(0) =>
     /\ ~ev_node.host_div
     /\ IF ev_pc = "exit"
        THEN ev_err = IF ev_node.kind = "ND_DIV"
                      THEN "division by zero during constant evaluation"
                      ELSE "remainder by zero during constant evaluation"
        ELSE ev_failed /\ ev_pc # "trap"

\* the minimum of the node's signed type divided by -1
MinByMinusOne(min) ==
  ~ev_node.ty.is_unsigned /\ ev_node.lval = min /\ ev_node.rval = I64(-1)

TruncatedTo(ty, x, v) ==
  IF ty.kind = "TY_BOOL" THEN v = (IF x = I64(0) THEN I64(0) ELSE I64(1))
  ELSE /\ \A i \in 1..ty.size : v[i] = x[i]
       /\ \A i \in (ty.size + 1)..8 :
            v[i] = IF ~ty.is_unsigned /\ x[ty.size] >= 128 THEN 255 ELSE 0

\* C21: for every integer type T (bool, signed and unsigned of 1, 2, 4 and
\* 8 bytes) and every 64-bit value x, the cast (T)x is evaluated to x
\* truncated to the width of T and sign- or zero-extended (for bool: 1 if x
\* is not 0, else 0).
C21_CastTruncates ==
  (Evaluated /\ ev_node.kind = "ND_CAST") =>
     /\ ev_node.ty \in CastTypes
     /\ TruncatedTo(ev_node.ty, ev_node.lval, ev_node.val)

\* (char)200 has been evaluated to -56
C21_Witness ==
  /\ ev_pc = "eval" /\ ev_node.kind = "ND_CAST" /\ ev_node.ty = ty_char
  /\ ev_node.lval = I64(200) /\ ev_node.val = I64(-56)

\* C22: a call of is_const_expr never ends the process on an evaluation
\* error; it returns false exactly when eval_error was called during it;
\* eval_recover is null before and after every call (its assertion never
\* fails, probes never nest); an evaluation error outside a probe is fatal.
C22_ProbeRecovers ==
  /\ ev_recover => ev_pc \in {"num", "eval", "trap"}
  /\ ev_pc \in {"start", "done"} => ~ev_recover
  /\ ev_pc # "abort"
  /\ ev_pc = "done" =>
       IF ev_ret[1] = "bool" THEN ev_ret[2] = ~ev_raised ELSE ~ev_raised
  /\ (~ev_recover /\ ev_raised /\ ev_pc # "done") =>
       ev_pc = "exit" /\ ev_err # ""

\* a probe of an expression that divides by zero has returned false
C22_Witness ==
  /\ ev_pc = "done" /\ ev_ret = <<"bool", FALSE>> /\ ev_raised
  /\ ev_node.kind = "ND_DIV" /\ ev_node.rval = I64(0)

\* ==========================================================================
\* ENUM BODIES (parse.c: enum_specifier)
\*
\* val is a uint64_t, eight bytes as in the evaluator above.
\* ==========================================================================

MaxEnumerators == 3

\* the underlying types an enum names, and the values written after '=' with
\* the type of the constant expression: -3000000000 and 3000000000 are long
EnumTypes == {ty_char, ty_int, ty_uint, ty_long, ty_ulong}

Long3e9 == <<0, 94, 208, 178, 0, 0, 0, 0>>

EnumInits ==
  {Leaf(ty_int, I64(n)) : n \in {0, -1, 200}}
  \cup {Leaf(ty_int, I32_MAX), Leaf(ty_int, I32_MIN),
        Leaf(ty_uint, Add64(I32_MAX, I64(1))), Leaf(ty_uint, U32_MAX),
        Leaf(ty_long, Long3e9), Leaf(ty_long, Neg64(Long3e9)),
        Leaf(ty_long, I64_MAX), Leaf(ty_ulong, I64(-1))}

EnumState(val, is_neg, is_ovf, need_u32, need_u64, need_i64, been_neg) ==
  [val |-> val, is_neg |-> is_neg, is_ovf |-> is_ovf, need_u32 |-> need_u32,
   need_u64 |-> need_u64, need_i64 |-> need_i64, been_neg |-> been_neg]

\* the loop body after a '=': val = const_expr2(...) and the test of a
\* negative value
enumerator_init(s, init) ==
  IF ~init.ty.is_unsigned /\ IsNegative(init.val)
  THEN [s EXCEPT !.val = init.val,
                 !.need_i64 = Below(init.val, I32_MIN),
                 !.is_neg = TRUE, !.been_neg = TRUE]
  ELSE [s EXCEPT !.val = init.val]

\* the rest of the loop body: the need_u32 / need_u64 test, enum_val = val++
\* and the flags for the next enumerator
enumerator_next(s) ==
  LET large == ~s.is_neg /\ Below(I32_MAX, s.val)
  IN [s EXCEPT !.need_u64 = IF large THEN Below(U32_MAX, s.val) ELSE @,
               !.need_u32 = IF large THEN TRUE ELSE @,
               !.val = Add64(s.val, I64(1)),
               !.is_ovf = ~s.is_neg /\ Add64(s.val, I64(1)) = I64(0),
               !.is_neg = IsNegative(Add64(s.val, I64(1)))]

\* the test of an explicit underlying type after the loop
out_of_type_range(ty, s) ==
  \/ ty.is_unsigned /\ (s.been_neg \/ (ty.size < 8 /\ s.need_u64))
  \/ ~ty.is_unsigned /\ (s.need_u64 \/ (ty.size < 8 /\ (s.need_u32 \/ s.need_i64)))

\* the type chosen for an enum without an explicit underlying type
chosen_enum_ty(s) ==
  IF s.been_neg
  THEN IF s.need_u64 \/ s.need_u32 \/ s.need_i64 THEN ty_long ELSE ty_int
  ELSE IF s.need_u64 THEN ty_ulong
  ELSE ty_uint

\* history: the value an enumerator has in the program text.  An explicit
\* value is negative when its constant expression is signed and below zero;
\* an implicit one is its predecessor plus one, beyond uint64_t after
\* UINT64_MAX.
Written(val, neg, beyond) == [val |-> val, neg |-> neg, beyond |-> beyond]

WrittenInit(init) == Written(init.val, ~init.ty.is_unsigned /\ IsNegative(init.val), FALSE)

WrittenNext(vals) ==
  IF vals = <<>> THEN Written(I64(0), FALSE, FALSE)
  ELSE LET prev == vals[Len(vals)]
       IN Written(Add64(prev.val, I64(1)),
                  prev.neg /\ prev.val # I64(-1),
                  prev.beyond \/ (~prev.neg /\ prev.val = I64(-1)))

EnumInit ==
  /\ en_pc = "start" /\ en_ty = <<>> /\ en_has_type = FALSE /\ en_s = <<>>
  /\ en_vals = <<>> /\ en_err = ""
  /\ LayoutIdle /\ DirIdle /\ ExpandIdle /\ IdentIdle /\ ConvIdle /\ CallIdle /\ FrameIdle /\ VlaIdle /\ EvalIdle /\ GvarIdle /\ UnitIdle /\ DeclIdle

\* enum_specifier up to the loop: the type after ':' if there is one,
\* otherwise a copy of ty_uint
EnumSpecifier ==
  /\ en_pc = "start"
  /\ \/ \E ty \in EnumTypes : en_ty' = ty /\ en_has_type' = TRUE
     \/ en_ty' = ty_uint /\ en_has_type' = FALSE
  /\ en_s' = EnumState(I64(0), FALSE, FALSE, FALSE, FALSE, FALSE, FALSE)
  /\ en_pc' = "body"
  /\ UNCHANGED <<en_vals, en_err>> /\ OnlyEnum

InBody == en_pc = "body" /\ Len(en_vals) < MaxEnumerators

\* an enumerator with '=' and a constant expression
EnumExplicit ==
  /\ InBody
  /\ \E init \in EnumInits :
       /\ en_s' = enumerator_next(enumerator_init(en_s, init))
       /\ en_vals' = Append(en_vals, WrittenInit(init))
  /\ UNCHANGED <<en_pc, en_ty, en_has_type, en_err>> /\ OnlyEnum

\* an enumerator without '='
EnumImplicit ==
  /\ InBody
  /\ IF en_s.is_ovf
     THEN /\ en_pc' = "error" /\ en_err' = "enum value overflowed"
          /\ UNCHANGED <<en_s, en_vals>>
     ELSE /\ en_s' = enumerator_next(en_s)
          /\ en_vals' = Append(en_vals, WrittenNext(en_vals))
          /\ UNCHANGED <<en_pc, en_err>>
  /\ UNCHANGED <<en_ty, en_has_type>> /\ OnlyEnum

\* the '}' and what follows the loop
EnumClose ==
  /\ en_pc = "body"
  /\ IF en_vals = <<>>
     THEN en_pc' = "error" /\ en_err' = "empty enum specifier" /\ UNCHANGED en_ty
     ELSE IF en_has_type
     THEN IF out_of_type_range(en_ty, en_s)
          THEN /\ en_pc' = "error" /\ en_err' = "enum value out of type range"
               /\ UNCHANGED en_ty
          ELSE en_pc' = "accepted" /\ UNCHANGED <<en_ty, en_err>>
     ELSE en_pc' = "accepted" /\ en_ty' = chosen_enum_ty(en_s) /\ UNCHANGED en_err
  /\ UNCHANGED <<en_has_type, en_s, en_vals>> /\ OnlyEnum

NextEnum == EnumSpecifier \/ EnumExplicit \/ EnumImplicit \/ EnumClose

SpecEnum == EnumInit /\ [][NextEnum]_vars

\* ---- claims about enum bodies ----

\* the written value is one of the type's values
Representable(w, ty) ==
  /\ ~w.beyond
  /\ IF w.neg THEN ~ty.is_unsigned /\ SignExtend(w.val, ty.size) = w.val
     ELSE /\ ZeroExtend(w.val, ty.size) = w.val
          /\ ty.is_unsigned \/ w.val[ty.size] < 128

\* C23: whenever enum_specifier accepts an enum body, every enumerator
\* value is representable in the enum's underlying type, chosen among int,
\* unsigned int, long and unsigned long or named explicitly, for every
\* sequence of implicit and explicit enumerators.
C23_ValuesRepresentable ==
  en_pc = "accepted" =>
     \A i \in 1..Len(en_vals) : Representable(en_vals[i], en_ty)

\* ==========================================================================
\* INITIALIZED GLOBALS (parse.c: gvar_initializer, write_gvar_data;
\* codegen.c: emit_data)
\*
\* The recursion of write_gvar_data is kept as the list of its calls still
\* to make, in call order.  The menus hold integer and pointer scalars,
\* arrays, structs and a union; floating-point scalars and bit-field
\* members are left out.
\* ==========================================================================

MaxElems == 2

t_short == Scalar(ty_short)

t_ptr == Scalar(Ty("TY_PTR", 8, TRUE))

\* struct { char c; char *p; }, the same with attribute packed, and
\* union { int i; char *p; }
CharPtr == struct_type("TY_STRUCT", <<Member(t_char, 0), Member(t_ptr, 8)>>, 16, 8)

PackedCharPtr == struct_type("TY_STRUCT", <<Member(t_char, 0), Member(t_ptr, 1)>>, 9, 1)

IntOrPtr == struct_type("TY_UNION", <<Member(t_int, 0), Member(t_ptr, 0)>>, 8, 8)

GvarTypes ==
  {t_char, t_short, t_int, t_long, t_ptr, CharPtr, PackedCharPtr, IntOrPtr}
  \cup {array_of(b, n) : b \in {t_char, t_int, t_ptr}, n \in 1..MaxElems}

\* the expressions of the initializers
NdNum(val) == [kind |-> "ND_NUM", val |-> val]

NdVar(name) == [kind |-> "ND_VAR", name |-> name]

NdAddr(lhs) == [kind |-> "ND_ADDR", lhs |-> lhs]

NdMember(lhs, offset) == [kind |-> "ND_MEMBER", lhs |-> lhs, offset |-> offset]

NdCast(ty, lhs) == [kind |-> "ND_CAST", ty |-> ty, lhs |-> lhs]

\* 1, 258, &x, &s.m with m at offset 4, (int)&x, (long)&x
GvarExprs ==
  {NdNum(I64(1)), NdNum(I64(258)), NdAddr(NdVar("x")),
   NdAddr(NdMember(NdVar("s"), 4)),
   NdCast(ty_int, NdAddr(NdVar("x"))), NdCast(ty_long, NdAddr(NdVar("x")))}

\* eval2(node, &label) on these expressions: the value, and the label it
\* stored ("" for none)
RECURSIVE eval2_label(_)
eval2_label(node) ==
  IF node.kind = "ND_NUM" THEN [label |-> "", val |-> node.val]
  ELSE IF node.kind = "ND_VAR" THEN [label |-> node.name, val |-> I64(0)]
  ELSE IF node.kind = "ND_ADDR" THEN eval2_label(node.lhs)
  ELSE IF node.kind = "ND_MEMBER"
  THEN [eval2_label(node.lhs) EXCEPT !.val = Add64(@, I64(node.offset))]
  ELSE [eval2_label(node.lhs) EXCEPT !.val = eval_cast(node.ty, @)]

\* write_buf(buf + offset, val, sz)
write_buf(buf, offset, val, sz) ==
  [i \in 1..Len(buf) |->
     IF i > offset /\ i <= offset + sz THEN val[i - offset] ELSE buf[i]]

Relocation(offset, label, addend) ==
  [offset |-> offset, label |-> label, addend |-> addend]

Call(ty, offset) == [ty |-> ty, offset |-> offset]

GvarInit ==
  /\ gv_pc = "start" /\ gv_ty = <<>> /\ gv_calls = <<>> /\ gv_buf = <<>>
  /\ gv_rel = <<>> /\ gv_pos = 0 /\ gv_out = <<>>
  /\ LayoutIdle /\ DirIdle /\ ExpandIdle /\ IdentIdle /\ ConvIdle /\ CallIdle /\ FrameIdle /\ VlaIdle /\ EvalIdle /\ EnumIdle /\ UnitIdle /\ DeclIdle

\* gvar_initializer up to the call of write_gvar_data
GvarInitializer ==
  /\ gv_pc = "start"
  /\ \E ty \in GvarTypes :
       /\ gv_ty' = ty
       /\ gv_buf' = [i \in 1..ty.size |-> 0]
       /\ gv_calls' = <<Call(ty, 0)>>
  /\ gv_pc' = "write"
  /\ UNCHANGED <<gv_rel, gv_pos, gv_out>> /\ OnlyGvar

Writing(kinds) ==
  gv_pc = "write" /\ gv_calls # <<>> /\ gv_calls[1].ty.kind \in kinds

\* write_gvar_data on an array: one call for each element
WriteArray ==
  /\ Writing({"TY_ARRAY"})
  /\ LET c == gv_calls[1]
         base == c.ty.base[1]
     IN gv_calls' = [i \in 1..c.ty.array_len |->
                       Call(base, c.offset + base.size * (i - 1))]
                    \o Tail(gv_calls)
  /\ UNCHANGED <<gv_pc, gv_ty, gv_buf, gv_rel, gv_pos, gv_out>> /\ OnlyGvar

\* write_gvar_data on a struct: one call for each member
WriteStruct ==
  /\ Writing({"TY_STRUCT"})
  /\ LET c == gv_calls[1]
     IN gv_calls' = [i \in 1..Len(c.ty.members) |->
                       Call(c.ty.members[i].ty, c.offset + c.ty.members[i].offset)]
                    \o Tail(gv_calls)
  /\ UNCHANGED <<gv_pc, gv_ty, gv_buf, gv_rel, gv_pos, gv_out>> /\ OnlyGvar

\* write_gvar_data on a union: the initialized member, if there is one
WriteUnion ==
  /\ Writing({"TY_UNION"})
  /\ LET c == gv_calls[1]
     IN \/ gv_calls' = Tail(gv_calls)
        \/ \E i \in 1..Len(c.ty.members) :
             gv_calls' = <<Call(c.ty.members[i].ty, c.offset)>> \o Tail(gv_calls)
  /\ UNCHANGED <<gv_pc, gv_ty, gv_buf, gv_rel, gv_pos, gv_out>> /\ OnlyGvar

\* write_gvar_data on a scalar: nothing without an expression, the bytes
\* of the value, or a relocation when eval2 stored a label
WriteScalar ==
  /\ Writing({"TY_CHAR", "TY_SHORT", "TY_INT", "TY_LONG", "TY_PTR"})
  /\ LET c == gv_calls[1]
     IN \/ UNCHANGED <<gv_buf, gv_rel>>
        \/ \E expr \in GvarExprs :
             LET r == eval2_label(expr)
             IN IF r.label = ""
                THEN /\ gv_buf' = write_buf(gv_buf, c.offset, r.val, c.ty.size)
                     /\ UNCHANGED gv_rel
                ELSE /\ gv_rel' = Append(gv_rel, Relocation(c.offset, r.label, r.val))
                     /\ UNCHANGED gv_buf
  /\ gv_calls' = Tail(gv_calls)
  /\ UNCHANGED <<gv_pc, gv_ty, gv_pos, gv_out>> /\ OnlyGvar

\* the end of gvar_initializer: var->init_data = buf, var->rel = head.next
GvarInitialized ==
  /\ gv_pc = "write" /\ gv_calls = <<>>
  /\ gv_pc' = "emit"
  /\ UNCHANGED <<gv_ty, gv_calls, gv_buf, gv_rel, gv_pos, gv_out>> /\ OnlyGvar

\* one round of the loop of emit_data over the object's bytes
EmitDataByte ==
  /\ gv_pc = "emit" /\ gv_pos < gv_ty.size
  /\ IF gv_rel # <<>> /\ gv_rel[1].offset = gv_pos
     THEN /\ gv_out' = Append(gv_out, <<".quad", gv_rel[1].label, gv_rel[1].addend>>)
          /\ gv_rel' = Tail(gv_rel)
          /\ gv_pos' = gv_pos + 8
     ELSE /\ gv_out' = Append(gv_out, <<".byte", gv_buf[gv_pos + 1]>>)
          /\ gv_pos' = gv_pos + 1
          /\ UNCHANGED gv_rel
  /\ UNCHANGED <<gv_pc, gv_ty, gv_calls, gv_buf>> /\ OnlyGvar

\* the loop of emit_data ends
EmitDataEnd ==
  /\ gv_pc = "emit" /\ gv_pos >= gv_ty.size
  /\ gv_pc' = "done"
  /\ UNCHANGED <<gv_ty, gv_calls, gv_buf, gv_rel, gv_pos, gv_out>> /\ OnlyGvar

NextGvar ==
  \/ GvarInitializer \/ WriteArray \/ WriteStruct \/ WriteUnion \/ WriteScalar
  \/ GvarInitialized \/ EmitDataByte \/ EmitDataEnd

SpecGvar == GvarInit /\ [][NextGvar]_vars

\* ---- claims about initialized globals ----

\* C24: for every global variable with an initializer the serialized byte
\* buffer has exactly the size of the variable's type, and every relocation
\* recorded for it has an offset between 0 and the type's size minus 8.
C24_RelocationsInside ==
  (gv_pc = "emit" /\ gv_pos = 0) =>
     /\ Len(gv_buf) = gv_ty.size
     /\ \A i \in 1..Len(gv_rel) :
          gv_rel[i].offset >= 0 /\ gv_rel[i].offset <= gv_ty.size - 8

\* ==========================================================================
\* LIVE FUNCTIONS AND THE OUTPUT FILE (parse.c: parse, mark_fn_live,
\* find_func; codegen.c: codegen, emit_data, emit_text)
\*
\* A program is the list of globals parse() has built: three functions
\* with their reference lists and flags, and some variables.  The
\* recursion of mark_fn_live is kept as the stack of its calls.
\* ==========================================================================

MaxRefs == 2         \* the references of a program, all functions together

FnNames == <<"f1", "f2", "f3">>

\* what a function's body can name: the functions, and a variable
RefNames == {"f1", "f2", "f3", "v"}

Fn(name, is_definition, static_inline, is_referenced, refs) ==
  [name |-> name, is_function |-> TRUE, is_definition |-> is_definition,
   is_static |-> static_inline, is_inline |-> static_inline,
   is_referenced |-> is_referenced, refs |-> refs, has_init |-> FALSE]

Gvar(name, is_definition, has_init) ==
  [name |-> name, is_function |-> FALSE, is_definition |-> is_definition,
   is_static |-> FALSE, is_inline |-> FALSE,
   is_referenced |-> FALSE, refs |-> <<>>, has_init |-> has_init]

\* a definition, a declaration, a static inline definition, and a static
\* inline definition named at file scope
FnKinds ==
  {<<TRUE, FALSE, FALSE>>, <<FALSE, FALSE, FALSE>>, <<TRUE, TRUE, FALSE>>,
   <<TRUE, TRUE, TRUE>>}

\* int v = 1; extern int w;  or  int v;
VarLists ==
  {<<Gvar("v", TRUE, TRUE), Gvar("w", FALSE, FALSE)>>, <<Gvar("v", TRUE, FALSE)>>}

RefEdges == {e \in SUBSET ((DOMAIN FnNames) \X RefNames) : Cardinality(e) <= MaxRefs}

\* the names of a set, as a list in the order of RefOrder
RefOrder == <<"f1", "f2", "f3", "v">>

RefsOf(edges, f) ==
  SelectSeq(RefOrder, LAMBDA n : <<f, n>> \in edges)

Programs ==
  {[i \in 1..Len(FnNames) |->
      Fn(FnNames[i], kinds[i][1], kinds[i][2], kinds[i][3], RefsOf(edges, i))]
   \o gvars :
     kinds \in [DOMAIN FnNames -> FnKinds], edges \in RefEdges, gvars \in VarLists}

\* find_func finding no function
find_func_none(prog, name) == 0

\* find_func: the function of that name in the file scope, 0 for NULL
find_func(prog, name) ==
  IF \E i \in DOMAIN prog : prog[i].is_function /\ prog[i].name = name
  THEN CHOOSE i \in DOMAIN prog : prog[i].is_function /\ prog[i].name = name
  ELSE 0

\* the test of the last loop of parse
IsRoot(var) ==
  var.is_function /\ (var.is_referenced \/ ~(var.is_static /\ var.is_inline))

Frame(var, i) == [var |-> var, i |-> i]

\* a line of the output file: the part of codegen that wrote it, the Obj it
\* belongs to and its text
Line(part, name, text) == [part |-> part, name |-> name, text |-> text]

UnitInit ==
  /\ cg_pc = "start" /\ cg_prog = <<>> /\ cg_live = <<>> /\ cg_stack = <<>> /\ cg_i = 0
  /\ cg_out = <<>> /\ cg_last = <<>>
  /\ LayoutIdle /\ DirIdle /\ ExpandIdle /\ IdentIdle /\ ConvIdle /\ CallIdle /\ FrameIdle /\ VlaIdle /\ EvalIdle /\ EnumIdle /\ GvarIdle /\ DeclIdle

\* parse up to its last loop: the globals are declared, nothing is live
Parsed ==
  /\ cg_pc = "start"
  /\ \E prog \in Programs :
       /\ cg_prog' = prog
       /\ cg_live' = [i \in DOMAIN prog |-> FALSE]
  /\ cg_pc' = "roots" /\ cg_i' = 1
  /\ UNCHANGED <<cg_stack, cg_out, cg_last>> /\ OnlyUnit

\* mark_fn_live(var) up to its loop: returns at once on a live function,
\* otherwise marks it and starts on its references
mark_fn_live(var) ==
  IF cg_live[var]
  THEN UNCHANGED <<cg_live, cg_stack>>
  ELSE /\ cg_live' = [cg_live EXCEPT ![var] = TRUE]
       /\ cg_stack' = <<Frame(var, 1)>> \o cg_stack

\* one round of the last loop of parse
MarkRoot ==
  /\ cg_pc = "roots" /\ cg_stack = <<>> /\ cg_i <= Len(cg_prog)
  /\ IF IsRoot(cg_prog[cg_i])
     THEN mark_fn_live(cg_i)
     ELSE UNCHANGED <<cg_live, cg_stack>>
  /\ cg_i' = cg_i + 1
  /\ UNCHANGED <<cg_pc, cg_prog, cg_out, cg_last>> /\ OnlyUnit

\* one round of the loop of mark_fn_live in the innermost call, or its
\* return
MarkRefs ==
  /\ cg_pc = "roots" /\ cg_stack # <<>>
  /\ LET top == cg_stack[1]
         refs == cg_prog[top.var].refs
     IN IF top.i > Len(refs)
        THEN cg_stack' = Tail(cg_stack) /\ UNCHANGED cg_live
        ELSE LET fn == find_func(cg_prog, refs[top.i])
                 rest == <<Frame(top.var, top.i + 1)>> \o Tail(cg_stack)
             IN IF fn = 0 \/ cg_live[fn]
                THEN cg_stack' = rest /\ UNCHANGED cg_live
                ELSE /\ cg_live' = [cg_live EXCEPT ![fn] = TRUE]
                     /\ cg_stack' = <<Frame(fn, 1)>> \o rest
  /\ UNCHANGED <<cg_pc, cg_prog, cg_i, cg_out, cg_last>> /\ OnlyUnit

\* parse returns and codegen starts with emit_data
Codegen ==
  /\ cg_pc = "roots" /\ cg_stack = <<>> /\ cg_i > Len(cg_prog)
  /\ cg_pc' = "data" /\ cg_i' = 1
  /\ UNCHANGED <<cg_prog, cg_live, cg_stack, cg_out, cg_last>> /\ OnlyUnit

\* println writing at the start of the file
println_at_start(line) == cg_out' = <<line>> \o cg_out /\ cg_last' = line

\* println: the line goes to the end of the file
println(line) == cg_out' = Append(cg_out, line) /\ cg_last' = line

\* one round of the loop of emit_data
EmitData ==
  /\ cg_pc = "data" /\ cg_i <= Len(cg_prog)
  /\ LET var == cg_prog[cg_i]
     IN IF var.is_function \/ ~var.is_definition
        THEN UNCHANGED <<cg_out, cg_last>>
        ELSE println(Line("data", var.name, IF var.has_init THEN ".data" ELSE ".bss"))
  /\ cg_i' = cg_i + 1
  /\ UNCHANGED <<cg_pc, cg_prog, cg_live, cg_stack>> /\ OnlyUnit

\* emit_data returns and emit_text starts
EmitDataDone ==
  /\ cg_pc = "data" /\ cg_i > Len(cg_prog)
  /\ cg_pc' = "text" /\ cg_i' = 1
  /\ UNCHANGED <<cg_prog, cg_live, cg_stack, cg_out, cg_last>> /\ OnlyUnit

\* one round of the loop of emit_text: the lines of a live definition, with
\* the blank line after the prologue overwritten in place by the `sub`
EmitFunction ==
  /\ cg_pc = "text" /\ cg_i <= Len(cg_prog)
  /\ LET fn == cg_prog[cg_i]
     IN IF ~fn.is_function \/ ~fn.is_definition \/ ~cg_live[cg_i]
        THEN UNCHANGED <<cg_out, cg_last>>
        ELSE /\ cg_out' = cg_out \o <<Line("text", fn.name, ".text"),
                                      Line("text", fn.name, "sub"),
                                      Line("text", fn.name, "ret")>>
             /\ cg_last' = Line("text", fn.name, "ret")
  /\ cg_i' = cg_i + 1
  /\ UNCHANGED <<cg_pc, cg_prog, cg_live, cg_stack>> /\ OnlyUnit

\* emit_text returns
EmitTextDone ==
  /\ cg_pc = "text" /\ cg_i > Len(cg_prog)
  /\ cg_pc' = "note"
  /\ UNCHANGED <<cg_prog, cg_live, cg_stack, cg_i, cg_out, cg_last>> /\ OnlyUnit

\* the last println of codegen
EmitNote ==
  /\ cg_pc = "note"
  /\ println(Line("note", "", ".section .note.GNU-stack"))
  /\ cg_pc' = "done"
  /\ UNCHANGED <<cg_prog, cg_live, cg_stack, cg_i>> /\ OnlyUnit

NextUnit ==
  \/ Parsed \/ MarkRoot \/ MarkRefs \/ Codegen \/ EmitData \/ EmitDataDone
  \/ EmitFunction \/ EmitTextDone \/ EmitNote

SpecUnit == UnitInit /\ [][NextUnit]_vars

\* ---- claims about the output file and live functions ----

LinesOf(part) == {i \in DOMAIN cg_out : cg_out[i].part = part}

NoteLast ==
  /\ cg_last.text = ".section .note.GNU-stack"
  /\ cg_out[Len(cg_out)] = cg_last

\* C25 as stated: in the assembly text written by codegen the data sections
\* of all global variables come after the text of all functions, and the
\* last line written is the .section .note.GNU-stack directive.
C25_DataAfterText ==
  cg_pc = "done" =>
     /\ \A d \in LinesOf("data") : \A t \in LinesOf("text") : d > t
     /\ NoteLast

\* C25 amended: the data sections of all global variables come before the
\* text of all functions, and the last line written, which is the last line
\* of the file, is the .section .note.GNU-stack directive.
C25_DataBeforeText ==
  cg_pc = "done" =>
     /\ \A d \in LinesOf("data") : \A t \in LinesOf("text") : d < t
     /\ NoteLast

C25_Witness ==
  cg_pc = "done" /\ LinesOf("data") # {} /\ LinesOf("text") # {}

Functions == {i \in DOMAIN cg_prog : cg_prog[i].is_function}

\* function i names function j in its body
Refers(i, j) ==
  \E k \in DOMAIN cg_prog[i].refs : cg_prog[i].refs[k] = cg_prog[j].name

RECURSIVE ReachableFrom(_)
ReachableFrom(S) ==
  LET more == {j \in Functions : \E i \in S : Refers(i, j)}
  IN IF more \subseteq S THEN S ELSE ReachableFrom(S \cup more)

NotStaticInlineOrReferenced ==
  {i \in Functions :
     cg_prog[i].is_referenced \/ ~(cg_prog[i].is_static /\ cg_prog[i].is_inline)}

Emitted(i) == \E l \in LinesOf("text") : cg_out[l].name = cg_prog[i].name

\* C26: after parsing a function is live exactly when it can be reached
\* through the reference lists from a function that is not static inline or
\* was referenced at file scope; mark_fn_live enters no function twice, so
\* it terminates on cyclic and self references; and code is emitted for a
\* function definition if and only if it is live.
C26_LiveIffReachable ==
  /\ \A a, b \in DOMAIN cg_stack : a # b => cg_stack[a].var # cg_stack[b].var
  /\ \A a \in DOMAIN cg_stack : cg_live[cg_stack[a].var]
  /\ cg_pc \in {"data", "text", "note", "done"} =>
        \A i \in Functions :
           cg_live[i] <=> i \in ReachableFrom(NotStaticInlineOrReferenced)
  /\ cg_pc = "done" =>
        \A i \in Functions :
           cg_prog[i].is_definition => (Emitted(i) <=> cg_live[i])

\* two static inline definitions that name each other and are named by no
\* one else: neither is emitted, while a third function is
C26_Witness ==
  /\ cg_pc = "done"
  /\ \E i, j, k \in Functions :
       /\ i # j /\ Refers(i, j) /\ Refers(j, i)
       /\ cg_prog[i].is_definition /\ cg_prog[j].is_definition
       /\ ~Emitted(i) /\ ~Emitted(j) /\ Emitted(k)

\* ==========================================================================
\* THE LINE OF AN #if (preprocess.c: read_const_expr)
\*
\* The loop of read_const_expr on the token heap of the macro expansion
\* above, with object-like macros: expand_macro is the action ExpandObjlike.
\* ==========================================================================

\* the macro definitions and the tokens an #if line is made of
ConstExprMenus ==
  { Menu(<<Objlike("D", <<"defined">>), Objlike("X", <<"1">>)>>,
         <<>>, {"D", "X", "(", ")", "defined"}),
    Menu(<<Objlike("A", <<"defined", "(", "A", ")">>), Objlike("B", <<"A", "B">>)>>,
         <<>>, {"A", "B", "Y", "defined"}) }

ConstExprInit ==
  /\ \E menu \in ConstExprMenus : \E input \in SeqsUpTo(menu.alpha, MaxInput) :
       LET h == AddMacros(TokenList(<<>>, menu.pre \o input), menu.defs)
       IN /\ ex_tk = h.tk
          /\ ex_mac = h.mac
          /\ ex_lock = [m \in DOMAIN h.mac |-> [is_locked |-> FALSE, stop_tok |-> NULL]]
  /\ ex_pc = "run"
  /\ ex_err = ""
  /\ ex_locked = <<>>
  /\ ex_stack = <<LoopFrame("read_const_expr", 1, "", 0)>>
  /\ ex_result = <<>>
  /\ ex_nexp = 0
  /\ ex_last = <<>>
  /\ ex_scan = {}
  /\ LayoutIdle /\ DirIdle /\ IdentIdle /\ ConvIdle /\ CallIdle /\ FrameIdle /\ VlaIdle /\ EvalIdle /\ EnumIdle /\ GvarIdle /\ UnitIdle /\ DeclIdle

\* to_int_token
to_int_token(T, val) == [T EXCEPT !.t = IF val = 0 THEN "0" ELSE "1", !.k = "num"]

InConstExpr ==
  /\ ex_pc = "run" /\ Top.kind = "read_const_expr" /\ Cur.k # "eof"
  /\ NotExpanded(Cur)

\* `defined X` or `defined(X)`: the tokens up to the name or the ')' are
\* stepped over and the loop goes on at the token after them
ReadDefined ==
  /\ InConstExpr
  /\ equal(Cur, "defined")
  /\ LET start == Top.tok
         has_paren == equal(ex_tk[Cur.next], "(")
         name == IF has_paren THEN ex_tk[Cur.next].next ELSE Cur.next
         after == ex_tk[name].next
     IN IF ex_tk[name].k # "id"
        THEN ExpandFatal("macro name must be an identifier")
        ELSE IF has_paren /\ ~equal(ex_tk[after], ")")
        THEN ExpandFatal("expected ')'")
        ELSE LET tok == IF has_paren THEN ex_tk[after].next ELSE after
                 one == to_int_token(Cur, IF find_macro(ex_mac, ex_tk[name]) THEN 1 ELSE 0)
             IN /\ SetTop([Top EXCEPT !.tok = tok, !.out = @ \o <<one>>])
                /\ SetLocks(pop_macro_lock(Locks, tok))
                /\ ex_scan' = {tok}
                /\ UNCHANGED <<ex_pc, ex_err, ex_tk, ex_mac, ex_result, ex_nexp, ex_last>>
  /\ OnlyExpand

\* any other token that is not expanded: an identifier becomes 0
ConstExprToken ==
  /\ InConstExpr
  /\ ~equal(Cur, "defined")
  /\ LET tok == Top.tok
         mark == ~Cur.dx /\ find_macro(ex_mac, Cur) /\ IsLocked(ex_lock, Cur.t)
         tk1 == IF mark THEN [ex_tk EXCEPT ![tok].dx = TRUE] ELSE ex_tk
         T == IF Cur.k = "id" THEN to_int_token(tk1[tok], 0) ELSE tk1[tok]
     IN /\ ex_tk' = tk1
        /\ SetTop([Top EXCEPT !.tok = Cur.next, !.out = @ \o <<T>>])
        /\ SetLocks(pop_macro_lock(Locks, Cur.next))
        /\ ex_scan' = {Cur.next}
  /\ UNCHANGED <<ex_pc, ex_err, ex_mac, ex_result, ex_nexp, ex_last>>
  /\ OnlyExpand

\* the end of the line: the check of locked_macros and the return
ReadConstExprEnd ==
  /\ ex_pc = "run"
  /\ Top.kind = "read_const_expr"
  /\ Cur.k = "eof"
  /\ IF Top.start_m # LockTop(ex_locked)
     THEN ex_pc' = "internal_error" /\ UNCHANGED ex_result
     ELSE ex_pc' = "done" /\ ex_result' = Top.out
  /\ UNCHANGED <<ex_err, ex_tk, ex_mac, ex_lock, ex_locked, ex_stack, ex_nexp, ex_last,
                 ex_scan>>
  /\ OnlyExpand

NextConstExpr == ExpandObjlike \/ ReadDefined \/ ConstExprToken \/ ReadConstExprEnd

SpecConstExpr == ConstExprInit /\ [][NextConstExpr]_vars

\* C27: the locked macros form a stack without duplicates, a macro is
\* unlocked exactly when the cursor reaches its stop token while it is on
\* top, every lock pushed during preprocess2, expand_arg or read_const_expr
\* is popped before the function returns, and the internal-error checks
\* are never reached.
C27_LocksBalanced ==
  /\ \A i, j \in DOMAIN ex_locked : i # j => ex_locked[i] # ex_locked[j]
  /\ \A m \in DOMAIN ex_lock : ex_lock[m].is_locked <=> \E i \in DOMAIN ex_locked : ex_locked[i] = m
  /\ ex_pc = "done" => ex_locked = <<>>
  /\ ex_pc # "internal_error"

\* ==========================================================================
\* CASE LABELS AND VLAS (parse.c: stmt at "switch", "case" and "default",
\* loop_body)
\*
\* The parse of a function body as above, with switch statements and case
\* labels in place of the jumps.  vl_loop also holds current_switch and,
\* as history, the VLAs in scope where that switch begins.
\* ==========================================================================

NoSwitch ==
  [brk_vla |-> NULL, cont_vla |-> NULL, brk_label |-> FALSE,
   current_switch |-> FALSE, switch_scope |-> <<>>]

SwitchInit ==
  /\ vl_pc = "parse"
  /\ vl_n = 0
  /\ vl_vla_next = <<>>
  /\ vl_cur = NULL
  /\ vl_loop = NoSwitch
  /\ vl_blocks = <<[target_vla |-> NULL, is_loop |-> FALSE, loop |-> NoSwitch,
                    scope_len |-> 0]>>
  /\ vl_nodes = <<>>
  /\ vl_fn = [fn_use_vla |-> FALSE, dont_dealloc_vla |-> FALSE,
              dont_reuse_stack |-> FALSE, dealloc_vla |-> FALSE]
  /\ vl_scope = <<>>
  /\ vl_out = <<>>
  /\ vl_err = ""
  /\ LayoutIdle /\ DirIdle /\ ExpandIdle /\ IdentIdle /\ ConvIdle /\ CallIdle /\ FrameIdle /\ EvalIdle /\ EnumIdle /\ GvarIdle /\ UnitIdle /\ DeclIdle

\* "switch (cond) {": current_switch, brk_label and brk_vla are set for the
\* body and restored after it, then compound_stmt at "{"
ParseSwitch ==
  /\ Parsing
  /\ vl_blocks' = Append(vl_blocks, [target_vla |-> vl_cur, is_loop |-> TRUE,
                                     loop |-> vl_loop, scope_len |-> Len(vl_scope)])
  /\ vl_loop' = [vl_loop EXCEPT !.brk_vla = vl_cur, !.brk_label = TRUE,
                                !.current_switch = TRUE, !.switch_scope = vl_scope]
  /\ vl_n' = vl_n + 1
  /\ UNCHANGED <<vl_pc, vl_vla_next, vl_cur, vl_nodes, vl_fn, vl_scope, vl_out, vl_err>>
  /\ OnlyVla

\* the test of a case or default label
case_crosses_never(current_vla, brk_vla) == FALSE

case_crosses(current_vla, brk_vla) == current_vla # brk_vla

\* "case" const-expr ":" or "default" ":"
ParseCase ==
  /\ Parsing
  /\ IF ~vl_loop.current_switch
     THEN vl_pc' = "error" /\ vl_err' = "stray case" /\ UNCHANGED vl_nodes
     ELSE IF case_crosses(vl_cur, vl_loop.brk_vla)
     THEN /\ vl_pc' = "error" /\ vl_err' = "jump crosses VLA initialization"
          /\ UNCHANGED vl_nodes
     ELSE /\ vl_nodes' = Append(vl_nodes, VlaNode("case", vl_cur, NULL, vl_scope,
                                                  vl_loop.switch_scope))
          /\ UNCHANGED <<vl_pc, vl_err>>
  /\ vl_n' = vl_n + 1
  /\ UNCHANGED <<vl_vla_next, vl_cur, vl_loop, vl_blocks, vl_fn, vl_scope, vl_out>>
  /\ OnlyVla

NextSwitch ==
  \/ ParseVla \/ ParseOpenBlock \/ ParseLoop \/ ParseCloseBlock \/ ParseSwitch
  \/ ParseCase \/ EndFunction

SpecSwitch == SwitchInit /\ [][NextSwitch]_vars

\* C28: a case or default label is accepted only if the VLAs in scope at
\* the label are those in scope where its enclosing switch statement
\* begins, also inside a loop nested in the switch.
C28_CaseSeesSwitchVlas ==
  \A i \in 1..Len(vl_nodes) :
     vl_nodes[i].kind = "case" => vl_nodes[i].scope = vl_nodes[i].target_scope

\* ==========================================================================
\* DECLARATIONS OF ONE GLOBAL VARIABLE (parse.c: global_declaration;
\* codegen.c: emit_data)
\* ==========================================================================

MaxDecls == 3

\* a declaration of the variable: its storage class, its type and the value
\* of its initializer, NULL for none
Declaration(is_extern, is_static, is_tls, ty, init) ==
  [is_extern |-> is_extern, is_static |-> is_static, is_tls |-> is_tls,
   ty |-> ty, init |-> init]

Declarations ==
  {Declaration(e, s, t, ty, init) :
     e \in BOOLEAN, s \in BOOLEAN, t \in BOOLEAN, ty \in {"int", "long"},
     init \in {NULL, 1, 2}}

\* every declaration taken for a definition
is_definition_always(decl) == TRUE

\* bool is_definition = !attr->is_extern; and true with an initializer
is_definition(decl) == ~decl.is_extern \/ decl.init # NULL

DeclInit ==
  /\ dc_pc = "parse" /\ dc_var = <<>> /\ dc_n = 0
  /\ dc_seen = [definition |-> FALSE, init |-> FALSE]
  /\ dc_opt \in BOOLEAN /\ dc_out = ""
  /\ LayoutIdle /\ DirIdle /\ ExpandIdle /\ IdentIdle /\ ConvIdle /\ CallIdle /\ FrameIdle /\ VlaIdle /\ EvalIdle /\ EnumIdle /\ GvarIdle /\ UnitIdle

\* the fields of the Obj after the declaration: the variable found or made
\* by new_gvar, then the assignments and gvar_initializer
Declared(var, decl) ==
  [ty |-> decl.ty, is_definition |-> is_definition(decl),
   is_static |-> decl.is_static, is_tls |-> decl.is_tls,
   init_data |-> IF decl.init # NULL THEN decl.init
                 ELSE IF var = <<>> THEN NULL ELSE var.init_data,
   is_tentative |-> decl.init = NULL /\ is_definition(decl) /\ ~decl.is_tls]

\* one declaration of the variable, the only declarator of its statement
GlobalDeclaration ==
  /\ dc_pc = "parse" /\ dc_n < MaxDecls
  /\ \E decl \in Declarations :
       /\ dc_seen' = [definition |-> dc_seen.definition \/ ~decl.is_extern,
                      init |-> dc_seen.init \/ decl.init # NULL]
       /\ IF dc_var # <<>> /\ (~is_definition(decl)
                               \/ (dc_var.is_definition /\ ~dc_var.is_tentative))
          THEN \* continue: the next token has to be ',' or ';'
               /\ dc_pc' = IF decl.init # NULL THEN "error" ELSE "parse"
               /\ UNCHANGED dc_var
          ELSE dc_var' = Declared(dc_var, decl) /\ UNCHANGED dc_pc
  /\ dc_n' = dc_n + 1
  /\ UNCHANGED <<dc_opt, dc_out>> /\ OnlyDecl

\* emit_data on the variable
EmitVariable ==
  /\ dc_pc = "parse" /\ dc_var # <<>>
  /\ dc_out' = IF ~dc_var.is_definition THEN ""
               ELSE IF dc_opt /\ dc_var.is_tentative THEN ".comm"
               ELSE IF dc_var.init_data # NULL
               THEN (IF dc_var.is_tls THEN ".tdata" ELSE ".data")
               ELSE IF dc_var.is_tls THEN ".tbss" ELSE ".bss"
  /\ dc_pc' = "done"
  /\ UNCHANGED <<dc_var, dc_n, dc_seen, dc_opt>> /\ OnlyDecl

NextDecl == GlobalDeclaration \/ EmitVariable

SpecDecl == DeclInit /\ [][NextDecl]_vars

\* C29: the variable is emitted as a zero-initialized definition (.zero in
\* .bss or .tbss, or a .comm common symbol) exactly when at least one
\* declaration was a non-extern definition and no declaration supplied an
\* initializer; and once a declaration with an initializer has been
\* processed, later declarations change neither the type nor the
\* initializer nor the flags of the variable.
C29_ZeroInitialized ==
  /\ [](dc_pc = "done" =>
          (dc_out \in {".bss", ".tbss", ".comm"}
             <=> (dc_seen.definition /\ ~dc_seen.init)))
  /\ [][dc_seen.init => dc_var' = dc_var]_vars

\* three declarations without an initializer, a non-extern one among them:
\* the variable is emitted in .bss or as a common symbol
C29_Witness ==
  /\ dc_pc = "done" /\ dc_n = 3 /\ dc_seen.definition /\ ~dc_seen.init
  /\ dc_out \in {".bss", ".comm"}

\* ==========================================================================
\* SKIPPING A GUARDED FILE (preprocess.c: include_file, directives)
\* ==========================================================================

\* What the directives above do with the lines of a file when it is read
\* in full while the names in `macros` are defined: the number of text
\* lines that reach the output and the names defined afterwards.  s holds
\* cond (for each open conditional whether a branch was included, top
\* first), macros and out.
RECURSIVE Reread(_, _)
Reread(toks, s) ==
  IF toks = <<>> THEN s
  ELSE LET k == Head(toks).k
           v == Head(toks).v
           rest == Tail(toks)
       IN IF k = "text" THEN Reread(rest, [s EXCEPT !.out = @ + 1])
          ELSE IF k = "define" THEN Reread(rest, [s EXCEPT !.macros = @ \cup {v}])
          ELSE IF k = "undef" THEN Reread(rest, [s EXCEPT !.macros = @ \ {v}])
          ELSE IF IsIfKind(k)
          THEN LET val == IF k = "if" THEN v = 1
                          ELSE IF k = "ifdef" THEN v \in s.macros
                          ELSE v \notin s.macros
               IN Reread(IF val THEN rest ELSE skip_cond_incl(rest),
                         [s EXCEPT !.cond = <<val>> \o @])
          ELSE IF k \in {"elif", "else", "endif"} /\ s.cond = <<>> THEN s
          ELSE IF k = "elif"
          THEN LET takes == ~s.cond[1] /\ v = 1
               IN Reread(IF takes THEN rest ELSE skip_cond_incl(rest),
                         [s EXCEPT !.cond[1] = @ \/ takes])
          ELSE IF k = "else"
          THEN Reread(IF s.cond[1] THEN skip_cond_incl(rest) ELSE rest, s)
          ELSE IF k = "endif" THEN Reread(rest, [s EXCEPT !.cond = Tail(@)])
          ELSE Reread(rest, s)

RereadNow(path) ==
  Reread(TokenizeFile(dr_files, path), [cond |-> <<>>, macros |-> dr_macros, out |-> 0])

\* C30: whenever an inclusion is skipped because the file's recorded guard
\* macro is defined, reading the file again in full at that point would add
\* no tokens to the output and change no macro definition, also for files
\* whose guarded group contains #else or #elif branches.
C30_SkipPreserves ==
  (DirAt("include") /\ GuardSkips(dr_guards, dr_macros, Head(dr_in).v)) =>
     /\ RereadNow(Head(dr_in).v).out = 0
     /\ RereadNow(Head(dr_in).v).macros = dr_macros

====
